---- MODULE Spec2Model ----
(***************************************************************************)
(* Cycle-level model of the RISC-V instruction sequencer (SequencerCard)   *)
(* and of the control ROM (SequencerROM).                                  *)
(*                                                                         *)
(* A 32-bit word is represented by the set of the positions of its 1 bits  *)
(* (a subset of 0..31), so that every register keeps its full width and    *)
(* arithmetic is modulo 2^32.  One step of the model is one machine cycle: *)
(* the combinational signals are computed from the registers and the       *)
(* inputs, the ph2 registers (_exception, _trap_cause) are clocked, and    *)
(* then the ph1 registers are clocked.                                     *)
(***************************************************************************)
EXTENDS Integers, FiniteSets, Sequences, TLC

VARIABLES
    pc, instr_phase, instr,
    stored_alu_eq, stored_alu_lt, stored_alu_ltu,
    memaddr, memdata_wr, tmp,
    reg_time_irq, reg_ext_irq,
    trap, trap_svc, exception, trap_cause,
    mtvec, mcause, mepc, mtval, mstatus,
    xreg,
    sig, last, nfetch,
    irq_held,
    rom

vars == << pc, instr_phase, instr, stored_alu_eq, stored_alu_lt, stored_alu_ltu,
           memaddr, memdata_wr, tmp, reg_time_irq, reg_ext_irq,
           trap, trap_svc, exception, trap_cause,
           mtvec, mcause, mepc, mtval, mstatus, xreg, sig, last, nfetch,
           irq_held, rom >>

(***************************************************************************)
(* Bounds of the model.                                                    *)
(***************************************************************************)
\* Number of instruction fetches in a run of Spec.
MaxInstr == 3

\* Number of instruction fetches in a run of SpecCSR.
MaxCsrInstr == 2

\* Number of instruction fetches in a run of SpecMem.
MaxMemInstr == 2

\* Number of instruction fetches in a run of SpecIllegal.
MaxIllegalInstr == 2

\* Number of instruction fetches in a run of SpecRead.
MaxReadInstr == 2

\* Number of instruction fetches in a run of SpecFatal.
MaxFatalInstr == 2

\* Number of instruction fetches in a run of SpecJump.
MaxJumpInstr == 2

\* Number of instruction fetches in a run of SpecLoad.
MaxLoadInstr == 1

\* Number of instruction fetches in a run of SpecStore.
MaxStoreInstr == 1

\* Number of instruction fetches in a run of SpecLive.
MaxLiveInstr == 2

\* Number of instruction fetches in a run of SpecAlu.
MaxAluInstr == 1

\* Number of instruction fetches in a run of SpecUnimp.
MaxUnimpInstr == 2

\* Number of instruction fetches in a run of SpecRmw.
MaxRmwInstr == 2

\* Number of instruction fetches in a run of SpecBranch.
MaxBranchInstr == 2

\* Number of instruction fetches in a run of SpecIrq.
MaxIrqInstr == 3

(***************************************************************************)
(* Words.                                                                  *)
(***************************************************************************)
XLEN == 32

Word0 == {}

\* The word of a natural number below 2^31.
W(n) == { i \in 0..30 : (n \div (2^i)) % 2 = 1 }

\* The bits of n placed at position at and above.
Bits(n, at) == { i + at : i \in W(n) } \cap (0..(XLEN - 1))

\* The value of the field w[hi:lo].
RECURSIVE Field(_, _, _)
Field(w, lo, hi) ==
    IF lo > hi THEN 0
    ELSE (IF lo \in w THEN 1 ELSE 0) + 2 * Field(w, lo + 1, hi)

RECURSIVE AddC(_, _, _, _)
AddC(a, b, i, c) ==
    IF i >= XLEN THEN {}
    ELSE LET s == (IF i \in a THEN 1 ELSE 0) + (IF i \in b THEN 1 ELSE 0) + c
         IN  (IF s % 2 = 1 THEN {i} ELSE {}) \cup AddC(a, b, i + 1, s \div 2)

Add(a, b) == AddC(a, b, 0, 0)

Not(a) == (0..(XLEN - 1)) \ a

Sub(a, b) == AddC(a, Not(b), 0, 1)

\* Unsigned and signed comparison.
LtU(a, b) ==
    LET d == (a \ b) \cup (b \ a)
    IN  d # {} /\ (CHOOSE i \in d : \A j \in d : j <= i) \in b

LtS(a, b) ==
    IF (31 \in a) # (31 \in b) THEN 31 \in a ELSE LtU(a, b)

ShL(a, k) == { i + k : i \in a } \cap (0..(XLEN - 1))

ShR(a, k) == { i - k : i \in { j \in a : j >= k } }

ShRA(a, k) == ShR(a, k) \cup (IF 31 \in a THEN (XLEN - k)..(XLEN - 1) ELSE {})

\* Sign extension of the low n bits of w.
SignExt(w, n) ==
    (w \cap (0..(n - 1))) \cup (IF (n - 1) \in w THEN n..(XLEN - 1) ELSE {})

(***************************************************************************)
(* The ALU card: a pure function of the operation and the X and Y buses,   *)
(* giving Z and the three flags.                                           *)
(***************************************************************************)
ALU(op, x, y) ==
    LET sh == Field(y, 0, 4)
    IN  CASE op = "ADD"     -> Add(x, y)
          [] op = "SUB"     -> Sub(x, y)
          [] op = "SLL"     -> ShL(x, sh)
          [] op = "SLT"     -> IF LtS(x, y) THEN {0} ELSE {}
          [] op = "SLTU"    -> IF LtU(x, y) THEN {0} ELSE {}
          [] op = "XOR"     -> (x \ y) \cup (y \ x)
          [] op = "SRL"     -> ShR(x, sh)
          [] op = "SRA"     -> ShRA(x, sh)
          [] op = "OR"      -> x \cup y
          [] op = "AND"     -> x \cap y
          [] op = "X"       -> x
          [] op = "Y"       -> y
          [] op = "AND_NOT" -> x \ y
          [] OTHER          -> {}

alu_eq(x, y) == x = y

alu_lt(x, y) == LtS(x, y)

alu_ltu(x, y) == LtU(x, y)

(***************************************************************************)
(* Constants of consts.py.                                                 *)
(***************************************************************************)
Opcode_LOAD == 3
Opcode_OP_IMM == 19
Opcode_STORE == 35
Opcode_OP == 51
Opcode_BRANCH == 99
Opcode_SYSTEM == 115
Opcode_LUI == 55
Opcode_JALR == 103
Opcode_MISC_MEM == 15
Opcode_AUIPC == 23
Opcode_JAL == 111

AluFunc_ADD == 0
AluFunc_SUB == 8
AluFunc_SLL == 1
AluFunc_SLT == 2
AluFunc_SLTU == 11
AluFunc_XOR == 4
AluFunc_SRL == 5
AluFunc_SRA == 13
AluFunc_OR == 6
AluFunc_AND == 7

BranchCond_EQ == 0
BranchCond_NE == 1
BranchCond_LT == 4
BranchCond_GE == 5
BranchCond_LTU == 6
BranchCond_GEU == 7

MemAccessWidth_B == 0
MemAccessWidth_H == 1
MemAccessWidth_W == 2
MemAccessWidth_BU == 4
MemAccessWidth_HU == 5

SystemFunc_PRIV == 0
SystemFunc_CSRRW == 1
SystemFunc_CSRRS == 2
SystemFunc_CSRRC == 3
SystemFunc_CSRRWI == 5
SystemFunc_CSRRSI == 6
SystemFunc_CSRRCI == 7

PrivFunc_ECALL == 0
PrivFunc_EBREAK == 1
PrivFunc_URET == 2
PrivFunc_SRET == 258
PrivFunc_MRET == 770
PrivFunc_WFI == 261

CSRAddr_MSTATUS == 768
CSRAddr_MIE == 772
CSRAddr_MTVEC == 773
CSRAddr_MEPC == 833
CSRAddr_MCAUSE == 834
CSRAddr_MTVAL == 835
CSRAddr_MIP == 836

MStatus_MIE == 3
MStatus_MPIE == 7

\* Trap causes, as words.
INT_MACH_TIMER == {0, 1, 2, 31}
INT_MACH_EXTERNAL == {0, 1, 3, 31}
EXC_INSTR_ADDR_MISALIGN == {}
EXC_ILLEGAL_INSTR == {1}
EXC_BREAKPOINT == {0, 1}
EXC_LOAD_ADDR_MISALIGN == {2}
EXC_STORE_AMO_ADDR_MISALIGN == {1, 2}
EXC_ECALL_FROM_MACH_MODE == {0, 1, 3}

(***************************************************************************)
(* Instruction decoding (SequencerCard.elaborate, "Decode instruction").   *)
(***************************************************************************)
opcode(ir) == Field(ir, 0, 6)

rd(ir) == Field(ir, 7, 11)

funct3(ir) == Field(ir, 12, 14)

rs1(ir) == Field(ir, 15, 19)

rs2(ir) == Field(ir, 20, 24)

funct7(ir) == Field(ir, 25, 31)

funct12(ir) == Field(ir, 20, 31)

\* _alu_func[:3] = funct3, _alu_func[3] = funct7[5]
alu_func(ir) == funct3(ir) + (IF 30 \in ir THEN 8 ELSE 0)

\* The bits ir[hi:lo] moved to position at.
Slice(ir, lo, hi, at) == { i - lo + at : i \in ir \cap (lo..hi) }

decode_imm_I(ir) == SignExt(Slice(ir, 20, 31, 0), 12)

decode_imm_S(ir) == SignExt(Slice(ir, 7, 11, 0) \cup Slice(ir, 25, 31, 5), 12)

decode_imm_U(ir) == ir \cap (12..31)

decode_imm_B(ir) ==
    SignExt(Slice(ir, 31, 31, 12) \cup Slice(ir, 7, 7, 11)
            \cup Slice(ir, 25, 30, 5) \cup Slice(ir, 8, 11, 1), 13)

decode_imm_J(ir) ==
    SignExt(Slice(ir, 31, 31, 20) \cup Slice(ir, 12, 19, 12)
            \cup Slice(ir, 20, 20, 11) \cup Slice(ir, 21, 30, 1), 21)

\* _imm[0:5] = _instr[15:] (truncated to 5 bits), _imm[5:] = 0
decode_imm_SYS(ir) == Slice(ir, 15, 19, 0)

decode_imm(ir, fmt) ==
    CASE fmt = "I"   -> decode_imm_I(ir)
      [] fmt = "S"   -> decode_imm_S(ir)
      [] fmt = "R"   -> {}
      [] fmt = "U"   -> decode_imm_U(ir)
      [] fmt = "B"   -> decode_imm_B(ir)
      [] fmt = "J"   -> decode_imm_J(ir)
      [] fmt = "SYS" -> decode_imm_SYS(ir)
      [] OTHER       -> {}

(***************************************************************************)
(* The combinational signals of one cycle, with their default values.      *)
(* The fields exc .. mret record the register assignments a handler makes  *)
(* directly (m.d.ph1 / m.d.ph2) rather than through a selector.            *)
(***************************************************************************)
Defaults ==
    [ next_instr_phase |-> 0,
      reg_to_x |-> FALSE, pc_to_x |-> FALSE, memdata_to_x |-> FALSE,
      reg_to_y |-> FALSE, imm_to_y |-> FALSE, shamt_to_y |-> FALSE,
      alu_op_to_z |-> "NONE", pc_plus_4_to_z |-> FALSE, tmp_to_z |-> FALSE,
      pc_plus_4_to_pc |-> FALSE, x_to_pc |-> FALSE, z_to_pc |-> FALSE,
      memaddr_to_pc |-> FALSE, memdata_to_pc |-> FALSE,
      x_to_tmp |-> FALSE,
      pc_plus_4_to_memaddr |-> FALSE, x_to_memaddr |-> FALSE,
      z_to_memaddr |-> FALSE, memdata_to_memaddr |-> FALSE,
      z_to_memdata |-> FALSE,
      mem_rd |-> FALSE, load_instr |-> FALSE,
      mem_wr |-> FALSE, mem_wr_mask |-> 0,
      shamt |-> 0,
      is_last_instr_cycle |-> FALSE, instr_complete |-> FALSE,
      csr_to_x |-> FALSE, z_to_csr |-> FALSE,
      x_reg |-> 0, y_reg |-> 0, z_reg |-> 0,
      funct12_to_csr_num |-> FALSE, mepc_num_to_csr_num |-> FALSE,
      csr_num |-> 0,
      imm_format |-> "R",
      fatal |-> FALSE,
      \* set_exception
      exc |-> FALSE, exc_cause |-> {}, exc_mtval |-> {},
      \* handle_trap, phase 0
      irq_cause_ld |-> FALSE, irq_cause |-> {},
      pc_to_mepc |-> FALSE, trap_cause_to_mcause |-> FALSE,
      clr_time_irq |-> FALSE, clr_ext_irq |-> FALSE,
      mtvec_to_x |-> FALSE,
      \* handle_trap, phase 1
      trap_done |-> FALSE,
      \* handle_MRET
      mret |-> FALSE,
      \* what the cycle saw: filled in by Cycle
      in_trap |-> FALSE, phase |-> 0, instr_misalign |-> FALSE,
      fetch |-> FALSE, is_interrupted |-> FALSE,
      bus_x |-> {}, bus_y |-> {}, bus_z |-> {} ]

set_exception(s, cause, mtv) ==
    [s EXCEPT !.exc = TRUE, !.exc_cause = cause, !.exc_mtval = mtv,
              !.next_instr_phase = 0]

handle_illegal_instr(s, ir) == set_exception(s, EXC_ILLEGAL_INSTR, ir)

(***************************************************************************)
(* The opcode handlers of SequencerCard.  Each gives the signals of the    *)
(* current cycle for the latched instruction ir; assignments are applied   *)
(* in program order, so that a later assignment overrides an earlier one.  *)
(***************************************************************************)
handle_lui(ir) ==
    [Defaults EXCEPT !.imm_format = "U", !.reg_to_x = TRUE, !.x_reg = 0,
                     !.imm_to_y = TRUE, !.alu_op_to_z = "ADD",
                     !.z_reg = rd(ir), !.is_last_instr_cycle = TRUE]

\* handle_auipc with Z also latched into memdata_wr.
handle_auipc_to_memdata(ir) ==
    [Defaults EXCEPT !.imm_format = "U", !.pc_to_x = TRUE,
                     !.imm_to_y = TRUE, !.alu_op_to_z = "ADD",
                     !.z_reg = rd(ir), !.z_to_memdata = TRUE,
                     !.is_last_instr_cycle = TRUE]

handle_auipc(ir) ==
    [Defaults EXCEPT !.imm_format = "U", !.pc_to_x = TRUE,
                     !.imm_to_y = TRUE, !.alu_op_to_z = "ADD",
                     !.z_reg = rd(ir), !.is_last_instr_cycle = TRUE]

\* The Switch on _alu_func shared by handle_op_imm and handle_op.
AluFuncOp(f) ==
    CASE f = AluFunc_ADD  -> "ADD"
      [] f = AluFunc_SUB  -> "SUB"
      [] f = AluFunc_SLL  -> "SLL"
      [] f = AluFunc_SLT  -> "SLT"
      [] f = AluFunc_SLTU -> "SLTU"
      [] f = AluFunc_XOR  -> "XOR"
      [] f = AluFunc_SRL  -> "SRL"
      [] f = AluFunc_SRA  -> "SRA"
      [] f = AluFunc_OR   -> "OR"
      [] f = AluFunc_AND  -> "AND"
      [] OTHER            -> "NONE"

handle_op_imm(ir) ==
    LET a == [Defaults EXCEPT !.imm_format = "I", !.reg_to_x = TRUE,
                              !.x_reg = rs1(ir), !.imm_to_y = TRUE,
                              !.z_reg = rd(ir)]
        op == AluFuncOp(alu_func(ir))
        b == IF op # "NONE" THEN [a EXCEPT !.alu_op_to_z = op]
             ELSE handle_illegal_instr(a, ir)
    IN  [b EXCEPT !.is_last_instr_cycle = TRUE]

handle_op(ir) ==
    LET a == [Defaults EXCEPT !.imm_format = "R", !.reg_to_x = TRUE,
                              !.x_reg = rs1(ir), !.reg_to_y = TRUE,
                              !.y_reg = rs2(ir), !.z_reg = rd(ir)]
        op == AluFuncOp(alu_func(ir))
        b == IF op # "NONE" THEN [a EXCEPT !.alu_op_to_z = op]
             ELSE handle_illegal_instr(a, ir)
    IN  [b EXCEPT !.is_last_instr_cycle = TRUE]

\* Phase 1 of JAL and JALR; mtv is the mtval of the misalignment exception.
jump_phase1(a, ir, mtv) ==
    LET b == [a EXCEPT !.pc_plus_4_to_z = TRUE, !.z_reg = rd(ir),
                       !.memaddr_to_pc = TRUE]
    IN  IF 1 \in memaddr
        THEN [set_exception(b, EXC_INSTR_ADDR_MISALIGN, mtv)
                  EXCEPT !.memaddr_to_pc = FALSE]
        ELSE [b EXCEPT !.is_last_instr_cycle = TRUE]

handle_jal(ir) ==
    LET a == [Defaults EXCEPT !.imm_format = "J"]
    IN  IF instr_phase = 0
        THEN [a EXCEPT !.pc_to_x = TRUE, !.imm_to_y = TRUE,
                       !.alu_op_to_z = "ADD", !.z_to_memaddr = TRUE,
                       !.next_instr_phase = 1]
        ELSE jump_phase1(a, ir, memaddr)

handle_jalr(ir) ==
    LET a == [Defaults EXCEPT !.imm_format = "J"]
    IN  IF instr_phase = 0
        THEN [a EXCEPT !.reg_to_x = TRUE, !.x_reg = rs1(ir),
                       !.imm_to_y = TRUE, !.alu_op_to_z = "ADD",
                       !.z_to_memaddr = TRUE, !.next_instr_phase = 1]
        ELSE jump_phase1(a, ir, memaddr \ {0})

\* branch_cond with BLT and BGE deciding on the unsigned flag.
branch_cond_unsigned(f3) ==
    CASE f3 = BranchCond_EQ  -> stored_alu_eq
      [] f3 = BranchCond_NE  -> ~stored_alu_eq
      [] f3 = BranchCond_LT  -> stored_alu_ltu
      [] f3 = BranchCond_GE  -> ~stored_alu_ltu
      [] f3 = BranchCond_LTU -> stored_alu_ltu
      [] f3 = BranchCond_GEU -> ~stored_alu_ltu
      [] OTHER               -> FALSE

\* The branch condition from the stored flags; "illegal" for the Default case.
branch_cond(f3) ==
    CASE f3 = BranchCond_EQ  -> stored_alu_eq
      [] f3 = BranchCond_NE  -> ~stored_alu_eq
      [] f3 = BranchCond_LT  -> stored_alu_lt
      [] f3 = BranchCond_GE  -> ~stored_alu_lt
      [] f3 = BranchCond_LTU -> stored_alu_ltu
      [] f3 = BranchCond_GEU -> ~stored_alu_ltu
      [] OTHER               -> FALSE

branch_legal(f3) ==
    f3 \in {BranchCond_EQ, BranchCond_NE, BranchCond_LT, BranchCond_GE,
            BranchCond_LTU, BranchCond_GEU}

\* data_z_in in phase 1 of a branch: PC + (imm or 4).
branch_z(ir) ==
    Add(pc, IF branch_cond(funct3(ir)) THEN decode_imm_B(ir) ELSE {2})

handle_branch(ir) ==
    LET a == [Defaults EXCEPT !.imm_format = "B"]
    IN  IF instr_phase = 0
        THEN [a EXCEPT !.reg_to_x = TRUE, !.x_reg = rs1(ir),
                       !.reg_to_y = TRUE, !.y_reg = rs2(ir),
                       !.alu_op_to_z = "SUB", !.next_instr_phase = 1]
        ELSE LET b == IF branch_legal(funct3(ir)) THEN a
                      ELSE handle_illegal_instr(a, ir)
                 c == IF branch_cond(funct3(ir))
                      THEN [b EXCEPT !.imm_to_y = TRUE]
                      ELSE [b EXCEPT !.shamt = 4, !.shamt_to_y = TRUE]
                 d == [c EXCEPT !.pc_to_x = TRUE, !.alu_op_to_z = "ADD",
                                !.z_to_pc = TRUE, !.z_to_memaddr = TRUE]
                 z == branch_z(ir)
             IN  IF z \cap {0, 1} # {}
                 THEN [set_exception(d, EXC_INSTR_ADDR_MISALIGN, z)
                           EXCEPT !.z_to_pc = FALSE]
                 ELSE [d EXCEPT !.is_last_instr_cycle = TRUE]

\* Phase 0 of LOAD and STORE: memaddr <- rs1 + imm.
mem_phase0(a, ir) ==
    [a EXCEPT !.reg_to_x = TRUE, !.x_reg = rs1(ir), !.imm_to_y = TRUE,
              !.alu_op_to_z = "ADD", !.z_to_memaddr = TRUE,
              !.next_instr_phase = 1]

memaddr_2_lsb == Field(memaddr, 0, 1)

\* handle_load with the first shift of LB and LBU growing with the offset.
handle_load_shamt_by_lsb(ir) ==
    LET a == [Defaults EXCEPT !.imm_format = "I"]
        f3 == funct3(ir)
        lsb == memaddr_2_lsb
    IN  IF instr_phase = 0 THEN mem_phase0(a, ir)
        ELSE IF instr_phase = 1
        THEN LET b == [a EXCEPT !.mem_rd = TRUE, !.memdata_to_x = TRUE,
                                !.shamt_to_y = TRUE, !.alu_op_to_z = "SLL",
                                !.z_reg = rd(ir), !.next_instr_phase = 2]
             IN  CASE f3 \in {MemAccessWidth_B, MemAccessWidth_BU} ->
                        [b EXCEPT !.shamt = 8 * lsb]
                   [] f3 \in {MemAccessWidth_H, MemAccessWidth_HU} ->
                        IF lsb = 0 THEN [b EXCEPT !.shamt = 16]
                        ELSE IF lsb = 2 THEN [b EXCEPT !.shamt = 0]
                        ELSE set_exception(b, EXC_LOAD_ADDR_MISALIGN, memaddr)
                   [] f3 = MemAccessWidth_W ->
                        IF lsb = 0 THEN [b EXCEPT !.shamt = 0]
                        ELSE set_exception(b, EXC_LOAD_ADDR_MISALIGN, memaddr)
                   [] OTHER -> handle_illegal_instr(b, ir)
        ELSE LET b == [a EXCEPT !.reg_to_x = TRUE, !.x_reg = rd(ir),
                                !.shamt_to_y = TRUE, !.z_reg = rd(ir)]
                 c == CASE f3 = MemAccessWidth_B ->
                             [b EXCEPT !.shamt = 24, !.alu_op_to_z = "SRA"]
                        [] f3 = MemAccessWidth_BU ->
                             [b EXCEPT !.shamt = 24, !.alu_op_to_z = "SRL"]
                        [] f3 = MemAccessWidth_H ->
                             [b EXCEPT !.shamt = 16, !.alu_op_to_z = "SRA"]
                        [] f3 = MemAccessWidth_HU ->
                             [b EXCEPT !.shamt = 16, !.alu_op_to_z = "SRL"]
                        [] f3 = MemAccessWidth_W ->
                             [b EXCEPT !.shamt = 0, !.alu_op_to_z = "SRL"]
                        [] OTHER -> b
             IN  [c EXCEPT !.is_last_instr_cycle = TRUE]

handle_load(ir) ==
    LET a == [Defaults EXCEPT !.imm_format = "I"]
        f3 == funct3(ir)
        lsb == memaddr_2_lsb
    IN  IF instr_phase = 0 THEN mem_phase0(a, ir)
        ELSE IF instr_phase = 1
        THEN LET b == [a EXCEPT !.mem_rd = TRUE, !.memdata_to_x = TRUE,
                                !.shamt_to_y = TRUE, !.alu_op_to_z = "SLL",
                                !.z_reg = rd(ir), !.next_instr_phase = 2]
             IN  CASE f3 \in {MemAccessWidth_B, MemAccessWidth_BU} ->
                        [b EXCEPT !.shamt = 24 - 8 * lsb]
                   [] f3 \in {MemAccessWidth_H, MemAccessWidth_HU} ->
                        IF lsb = 0 THEN [b EXCEPT !.shamt = 16]
                        ELSE IF lsb = 2 THEN [b EXCEPT !.shamt = 0]
                        ELSE set_exception(b, EXC_LOAD_ADDR_MISALIGN, memaddr)
                   [] f3 = MemAccessWidth_W ->
                        IF lsb = 0 THEN [b EXCEPT !.shamt = 0]
                        ELSE set_exception(b, EXC_LOAD_ADDR_MISALIGN, memaddr)
                   [] OTHER -> handle_illegal_instr(b, ir)
        ELSE LET b == [a EXCEPT !.reg_to_x = TRUE, !.x_reg = rd(ir),
                                !.shamt_to_y = TRUE, !.z_reg = rd(ir)]
                 c == CASE f3 = MemAccessWidth_B ->
                             [b EXCEPT !.shamt = 24, !.alu_op_to_z = "SRA"]
                        [] f3 = MemAccessWidth_BU ->
                             [b EXCEPT !.shamt = 24, !.alu_op_to_z = "SRL"]
                        [] f3 = MemAccessWidth_H ->
                             [b EXCEPT !.shamt = 16, !.alu_op_to_z = "SRA"]
                        [] f3 = MemAccessWidth_HU ->
                             [b EXCEPT !.shamt = 16, !.alu_op_to_z = "SRL"]
                        [] f3 = MemAccessWidth_W ->
                             [b EXCEPT !.shamt = 0, !.alu_op_to_z = "SRL"]
                        [] OTHER -> b
             IN  [c EXCEPT !.is_last_instr_cycle = TRUE]

\* store_mask that enables the lowest lanes whatever the offset is.
store_mask_low_lanes(f3, lsb) ==
    CASE f3 = MemAccessWidth_B -> 1
      [] f3 = MemAccessWidth_H -> 3
      [] f3 = MemAccessWidth_W -> 15
      [] OTHER -> 0

\* mem_wr_mask in phase 2 of a STORE.
store_mask(f3, lsb) ==
    CASE f3 = MemAccessWidth_B -> 2 ^ lsb
      [] f3 = MemAccessWidth_H /\ lsb = 0 -> 3
      [] f3 = MemAccessWidth_H /\ lsb = 2 -> 12
      [] f3 = MemAccessWidth_W /\ lsb = 0 -> 15
      [] OTHER -> 0

\* handle_store with a memory read requested in the write phase.
handle_store_with_read(ir) ==
    LET a == [Defaults EXCEPT !.imm_format = "S"]
        f3 == funct3(ir)
        lsb == memaddr_2_lsb
    IN  IF instr_phase = 0 THEN mem_phase0(a, ir)
        ELSE IF instr_phase = 1
        THEN LET b == [a EXCEPT !.reg_to_x = TRUE, !.x_reg = rs2(ir),
                                !.shamt_to_y = TRUE, !.alu_op_to_z = "SLL",
                                !.z_to_memdata = TRUE, !.next_instr_phase = 2]
             IN  CASE f3 = MemAccessWidth_B ->
                        [b EXCEPT !.shamt = 8 * lsb]
                   [] f3 = MemAccessWidth_H ->
                        IF lsb = 0 THEN [b EXCEPT !.shamt = 0]
                        ELSE IF lsb = 2 THEN [b EXCEPT !.shamt = 16]
                        ELSE set_exception(b, EXC_STORE_AMO_ADDR_MISALIGN, memaddr)
                   [] f3 = MemAccessWidth_W ->
                        IF lsb = 0 THEN [b EXCEPT !.shamt = 0]
                        ELSE set_exception(b, EXC_STORE_AMO_ADDR_MISALIGN, memaddr)
                   [] OTHER -> handle_illegal_instr(b, ir)
        ELSE [a EXCEPT !.mem_wr_mask = store_mask(f3, lsb), !.mem_wr = TRUE,
                       !.mem_rd = TRUE, !.is_last_instr_cycle = TRUE]

\* handle_store without the alignment checks of phase 1.
handle_store_unchecked(ir) ==
    LET a == [Defaults EXCEPT !.imm_format = "S"]
        f3 == funct3(ir)
        lsb == memaddr_2_lsb
    IN  IF instr_phase = 0 THEN mem_phase0(a, ir)
        ELSE IF instr_phase = 1
        THEN LET b == [a EXCEPT !.reg_to_x = TRUE, !.x_reg = rs2(ir),
                                !.shamt_to_y = TRUE, !.alu_op_to_z = "SLL",
                                !.z_to_memdata = TRUE, !.next_instr_phase = 2]
             IN  CASE f3 = MemAccessWidth_B ->
                        [b EXCEPT !.shamt = 8 * lsb]
                   [] f3 = MemAccessWidth_H ->
                        IF lsb = 2 THEN [b EXCEPT !.shamt = 16]
                        ELSE [b EXCEPT !.shamt = 0]
                   [] f3 = MemAccessWidth_W -> [b EXCEPT !.shamt = 0]
                   [] OTHER -> handle_illegal_instr(b, ir)
        ELSE [a EXCEPT !.mem_wr_mask = store_mask(f3, lsb), !.mem_wr = TRUE,
                       !.is_last_instr_cycle = TRUE]

handle_store(ir) ==
    LET a == [Defaults EXCEPT !.imm_format = "S"]
        f3 == funct3(ir)
        lsb == memaddr_2_lsb
    IN  IF instr_phase = 0 THEN mem_phase0(a, ir)
        ELSE IF instr_phase = 1
        THEN LET b == [a EXCEPT !.reg_to_x = TRUE, !.x_reg = rs2(ir),
                                !.shamt_to_y = TRUE, !.alu_op_to_z = "SLL",
                                !.z_to_memdata = TRUE, !.next_instr_phase = 2]
             IN  CASE f3 = MemAccessWidth_B ->
                        [b EXCEPT !.shamt = 8 * lsb]
                   [] f3 = MemAccessWidth_H ->
                        IF lsb = 0 THEN [b EXCEPT !.shamt = 0]
                        ELSE IF lsb = 2 THEN [b EXCEPT !.shamt = 16]
                        ELSE set_exception(b, EXC_STORE_AMO_ADDR_MISALIGN, memaddr)
                   [] f3 = MemAccessWidth_W ->
                        IF lsb = 0 THEN [b EXCEPT !.shamt = 0]
                        ELSE set_exception(b, EXC_STORE_AMO_ADDR_MISALIGN, memaddr)
                   [] OTHER -> handle_illegal_instr(b, ir)
        ELSE [a EXCEPT !.mem_wr_mask = store_mask(f3, lsb), !.mem_wr = TRUE,
                       !.is_last_instr_cycle = TRUE]

\* csr_phase1 with the phase counter left at 1 on the last cycle.
csr_phase1_stay(a, ir) ==
    [a EXCEPT !.tmp_to_z = TRUE, !.z_reg = rd(ir), !.is_last_instr_cycle = TRUE,
              !.next_instr_phase = 1]

\* Phase 1 of every CSR instruction: tmp -> Z -> rd.
csr_phase1(a, ir) ==
    [a EXCEPT !.tmp_to_z = TRUE, !.z_reg = rd(ir), !.is_last_instr_cycle = TRUE]

\* Phase 0 of CSRRW and CSRRWI: X is x0 when rd is x0, the CSR otherwise.
csrrw_x(a, ir) ==
    IF rd(ir) = 0 THEN [a EXCEPT !.x_reg = 0, !.reg_to_x = TRUE]
    ELSE [a EXCEPT !.csr_to_x = TRUE]

handle_CSRRW(a0, ir) ==
    LET a == [a0 EXCEPT !.funct12_to_csr_num = TRUE]
    IN  IF instr_phase = 0
        THEN [csrrw_x(a, ir) EXCEPT !.y_reg = rs1(ir), !.reg_to_y = TRUE,
                  !.alu_op_to_z = "Y", !.z_to_csr = TRUE, !.x_to_tmp = TRUE,
                  !.next_instr_phase = 1]
        ELSE csr_phase1(a, ir)

handle_CSRRWI(a0, ir) ==
    LET a == [a0 EXCEPT !.funct12_to_csr_num = TRUE]
    IN  IF instr_phase = 0
        THEN [csrrw_x(a, ir) EXCEPT !.imm_to_y = TRUE,
                  !.alu_op_to_z = "Y", !.z_to_csr = TRUE, !.x_to_tmp = TRUE,
                  !.next_instr_phase = 1]
        ELSE csr_phase1(a, ir)

\* CSRRS that writes the CSR even when rs1 is x0.
handle_CSRRS_always(a0, ir) ==
    LET a == [a0 EXCEPT !.funct12_to_csr_num = TRUE]
    IN  IF instr_phase = 0
        THEN [a EXCEPT !.csr_to_x = TRUE, !.y_reg = rs1(ir), !.reg_to_y = TRUE,
                  !.alu_op_to_z = "OR", !.z_to_csr = TRUE,
                  !.x_to_tmp = TRUE, !.next_instr_phase = 1]
        ELSE csr_phase1(a, ir)

handle_CSRRS(a0, ir) ==
    LET a == [a0 EXCEPT !.funct12_to_csr_num = TRUE]
    IN  IF instr_phase = 0
        THEN [a EXCEPT !.csr_to_x = TRUE, !.y_reg = rs1(ir), !.reg_to_y = TRUE,
                  !.alu_op_to_z = "OR", !.z_to_csr = (rs1(ir) # 0),
                  !.x_to_tmp = TRUE, !.next_instr_phase = 1]
        ELSE csr_phase1(a, ir)

handle_CSRRSI(a0, ir) ==
    LET a == [a0 EXCEPT !.funct12_to_csr_num = TRUE]
    IN  IF instr_phase = 0
        THEN [a EXCEPT !.csr_to_x = TRUE, !.imm_to_y = TRUE,
                  !.alu_op_to_z = "OR", !.z_to_csr = (decode_imm_SYS(ir) # {}),
                  !.x_to_tmp = TRUE, !.next_instr_phase = 1]
        ELSE csr_phase1(a, ir)

\* handle_CSRRC with the ALU computing X & Y instead of X & ~Y.
handle_CSRRC_and(a0, ir) ==
    LET a == [a0 EXCEPT !.funct12_to_csr_num = TRUE]
    IN  IF instr_phase = 0
        THEN [a EXCEPT !.csr_to_x = TRUE, !.y_reg = rs1(ir), !.reg_to_y = TRUE,
                  !.alu_op_to_z = "AND", !.z_to_csr = (rs1(ir) # 0),
                  !.x_to_tmp = TRUE, !.next_instr_phase = 1]
        ELSE csr_phase1(a, ir)

handle_CSRRC(a0, ir) ==
    LET a == [a0 EXCEPT !.funct12_to_csr_num = TRUE]
    IN  IF instr_phase = 0
        THEN [a EXCEPT !.csr_to_x = TRUE, !.y_reg = rs1(ir), !.reg_to_y = TRUE,
                  !.alu_op_to_z = "AND_NOT", !.z_to_csr = (rs1(ir) # 0),
                  !.x_to_tmp = TRUE, !.next_instr_phase = 1]
        ELSE csr_phase1(a, ir)

handle_CSRRCI(a0, ir) ==
    LET a == [a0 EXCEPT !.funct12_to_csr_num = TRUE]
    IN  IF instr_phase = 0
        THEN [a EXCEPT !.csr_to_x = TRUE, !.imm_to_y = TRUE,
                  !.alu_op_to_z = "AND_NOT", !.z_to_csr = (decode_imm_SYS(ir) # {}),
                  !.x_to_tmp = TRUE, !.next_instr_phase = 1]
        ELSE csr_phase1(a, ir)

\* MRET that leaves the PC to the PC+4 default.
handle_MRET_no_pc(a) ==
    [a EXCEPT !.mepc_num_to_csr_num = TRUE, !.csr_to_x = TRUE,
              !.is_last_instr_cycle = TRUE, !.mret = TRUE]

handle_MRET(a) ==
    [a EXCEPT !.mepc_num_to_csr_num = TRUE, !.csr_to_x = TRUE,
              !.x_to_pc = TRUE, !.is_last_instr_cycle = TRUE, !.mret = TRUE]

handle_PRIV(a, ir) ==
    IF funct12(ir) = PrivFunc_MRET
    THEN IF rd(ir) = 0 /\ rs1(ir) = 0 THEN handle_MRET(a)
         ELSE handle_illegal_instr(a, ir)
    ELSE handle_illegal_instr(a, ir)

handle_system(ir) ==
    LET a == [Defaults EXCEPT !.imm_format = "SYS"]
        f3 == funct3(ir)
    IN  CASE f3 = SystemFunc_CSRRW  -> handle_CSRRW(a, ir)
          [] f3 = SystemFunc_CSRRWI -> handle_CSRRWI(a, ir)
          [] f3 = SystemFunc_CSRRS  -> handle_CSRRS(a, ir)
          [] f3 = SystemFunc_CSRRSI -> handle_CSRRSI(a, ir)
          [] f3 = SystemFunc_CSRRC  -> handle_CSRRC(a, ir)
          [] f3 = SystemFunc_CSRRCI -> handle_CSRRCI(a, ir)
          [] f3 = SystemFunc_PRIV   -> handle_PRIV(a, ir)
          [] OTHER                  -> handle_illegal_instr(a, ir)

\* handle_trap with the fatal cycle falling back to phase 0 instead of
\* holding phase 1.
handle_trap_no_hold ==
    IF instr_phase = 0
    THEN LET a == IF ~exception
                  THEN [Defaults EXCEPT
                           !.irq_cause_ld = (reg_time_irq \/ reg_ext_irq),
                           !.irq_cause = IF reg_time_irq THEN INT_MACH_TIMER
                                         ELSE INT_MACH_EXTERNAL,
                           !.pc_to_mepc = TRUE]
                  ELSE Defaults
         IN  [a EXCEPT !.trap_cause_to_mcause = TRUE,
                       !.clr_time_irq = reg_time_irq,
                       !.clr_ext_irq = (~reg_time_irq /\ reg_ext_irq),
                       !.mtvec_to_x = TRUE,
                       !.alu_op_to_z = "ADD", !.z_to_memaddr = TRUE,
                       !.next_instr_phase = 1]
    ELSE IF exception
         THEN [Defaults EXCEPT !.fatal = TRUE]
         ELSE [Defaults EXCEPT !.mem_rd = TRUE, !.memdata_to_pc = TRUE,
                               !.memdata_to_memaddr = TRUE, !.trap_done = TRUE]

\* handle_trap with the external interrupt tested before the timer.
handle_trap_ext_first ==
    IF instr_phase = 0
    THEN LET a == IF ~exception
                  THEN [Defaults EXCEPT
                           !.irq_cause_ld = (reg_time_irq \/ reg_ext_irq),
                           !.irq_cause = IF reg_ext_irq THEN INT_MACH_EXTERNAL
                                         ELSE INT_MACH_TIMER,
                           !.pc_to_mepc = TRUE]
                  ELSE Defaults
         IN  [a EXCEPT !.trap_cause_to_mcause = TRUE,
                       !.clr_ext_irq = reg_ext_irq,
                       !.clr_time_irq = (~reg_ext_irq /\ reg_time_irq),
                       !.mtvec_to_x = TRUE,
                       !.alu_op_to_z = "ADD", !.z_to_memaddr = TRUE,
                       !.next_instr_phase = 1]
    ELSE IF exception
         THEN [Defaults EXCEPT !.next_instr_phase = 1, !.fatal = TRUE]
         ELSE [Defaults EXCEPT !.mem_rd = TRUE, !.memdata_to_pc = TRUE,
                               !.memdata_to_memaddr = TRUE, !.trap_done = TRUE]

\* Trap entry.  In phase 1 a pending exception raises fatal and the phase
\* stays 1; otherwise the vector is read and the handler is entered.
\* handle_trap without the copy of pc to mepc on interrupt entry.
handle_trap_no_mepc ==
    IF instr_phase = 0
    THEN LET a == IF ~exception
                  THEN [Defaults EXCEPT
                           !.irq_cause_ld = (reg_time_irq \/ reg_ext_irq),
                           !.irq_cause = IF reg_time_irq THEN INT_MACH_TIMER
                                         ELSE INT_MACH_EXTERNAL]
                  ELSE Defaults
         IN  [a EXCEPT !.trap_cause_to_mcause = TRUE,
                       !.clr_time_irq = reg_time_irq,
                       !.clr_ext_irq = (~reg_time_irq /\ reg_ext_irq),
                       !.mtvec_to_x = TRUE,
                       !.alu_op_to_z = "ADD", !.z_to_memaddr = TRUE,
                       !.next_instr_phase = 1]
    ELSE IF exception
         THEN [Defaults EXCEPT !.next_instr_phase = 1, !.fatal = TRUE]
         ELSE [Defaults EXCEPT !.mem_rd = TRUE, !.memdata_to_pc = TRUE,
                               !.memdata_to_memaddr = TRUE, !.trap_done = TRUE]

handle_trap ==
    IF instr_phase = 0
    THEN LET a == IF ~exception
                  THEN [Defaults EXCEPT
                           !.irq_cause_ld = (reg_time_irq \/ reg_ext_irq),
                           !.irq_cause = IF reg_time_irq THEN INT_MACH_TIMER
                                         ELSE INT_MACH_EXTERNAL,
                           !.pc_to_mepc = TRUE]
                  ELSE Defaults
         IN  [a EXCEPT !.trap_cause_to_mcause = TRUE,
                       !.clr_time_irq = reg_time_irq,
                       !.clr_ext_irq = (~reg_time_irq /\ reg_ext_irq),
                       !.mtvec_to_x = TRUE,
                       !.alu_op_to_z = "ADD", !.z_to_memaddr = TRUE,
                       !.next_instr_phase = 1]
    ELSE IF exception
         THEN [Defaults EXCEPT !.next_instr_phase = 1, !.fatal = TRUE]
         ELSE [Defaults EXCEPT !.mem_rd = TRUE, !.memdata_to_pc = TRUE,
                               !.memdata_to_memaddr = TRUE, !.trap_done = TRUE]

\* The dispatch on the latched instruction (elaborate, "Handle the trap").
opcode_handler(ir) ==
    IF ir \cap (0..15) = {} THEN handle_illegal_instr(Defaults, ir)
    ELSE IF ir = 0..31 THEN handle_illegal_instr(Defaults, ir)
    ELSE LET op == opcode(ir)
         IN  CASE op = Opcode_LUI    -> handle_lui(ir)
               [] op = Opcode_AUIPC  -> handle_auipc(ir)
               [] op = Opcode_OP_IMM -> handle_op_imm(ir)
               [] op = Opcode_OP     -> handle_op(ir)
               [] op = Opcode_JAL    -> handle_jal(ir)
               [] op = Opcode_JALR   -> handle_jalr(ir)
               [] op = Opcode_BRANCH -> handle_branch(ir)
               [] op = Opcode_LOAD   -> handle_load(ir)
               [] op = Opcode_STORE  -> handle_store(ir)
               [] op = Opcode_SYSTEM -> handle_system(ir)
               [] OTHER              -> handle_illegal_instr(Defaults, ir)

\* csr_read with every other CSR number reading mtvec.
csr_read_mirror(n) ==
    CASE n = CSRAddr_MCAUSE  -> mcause
      [] n = CSRAddr_MTVEC   -> mtvec
      [] n = CSRAddr_MEPC    -> mepc
      [] n = CSRAddr_MTVAL   -> mtval
      [] n = CSRAddr_MSTATUS -> mstatus
      [] OTHER               -> mtvec

\* CSR read multiplexer: only these five CSRs drive data_x_out.
csr_read(n) ==
    CASE n = CSRAddr_MCAUSE  -> mcause
      [] n = CSRAddr_MTVEC   -> mtvec
      [] n = CSRAddr_MEPC    -> mepc
      [] n = CSRAddr_MTVAL   -> mtval
      [] n = CSRAddr_MSTATUS -> mstatus
      [] OTHER               -> Word0

\* CSR write switch: the value a CSR register takes on the ph1 edge.
csr_write(n, h, num, z, old) ==
    IF h.z_to_csr /\ num = n THEN z ELSE old

\* A register file without the x0 sink rule.
regfile_write_any(regs, z_reg, z) == [regs EXCEPT ![z_reg] = z]

\* Register file (external card): a write request with z_reg = 0 is dropped.
regfile_write(regs, z_reg, z) ==
    IF z_reg = 0 THEN regs ELSE [regs EXCEPT ![z_reg] = z]

\* last_cycle with _pc_plus_4_to_pc asserted on every last cycle.
last_cycle_always_plus_4(h) ==
    IF h.is_last_instr_cycle
    THEN [h EXCEPT !.instr_complete = TRUE,
                   !.pc_plus_4_to_pc = TRUE,
                   !.pc_plus_4_to_memaddr =
                       ~(h.x_to_memaddr \/ h.z_to_memaddr \/ h.memdata_to_memaddr)]
    ELSE h

\* _is_last_instr_cycle: instr_complete at mcycle_end, and the PC+4 defaults.
last_cycle(h) ==
    IF h.is_last_instr_cycle
    THEN [h EXCEPT !.instr_complete = TRUE,
                   !.pc_plus_4_to_pc =
                       ~(h.x_to_pc \/ h.z_to_pc \/ h.memaddr_to_pc \/ h.memdata_to_pc),
                   !.pc_plus_4_to_memaddr =
                       ~(h.x_to_memaddr \/ h.z_to_memaddr \/ h.memdata_to_memaddr)]
    ELSE h

\* trap_vector_y without the shift of the cause by two places.
trap_vector_y_unscaled(tc) ==
    IF 31 \in tc /\ Field(mtvec, 0, 1) = 1
    THEN tc \cap (0..29)
    ELSE Word0

\* Y during trap phase 0: the vector offset, from the trap cause as it
\* stands after the ph2 edge of the cycle.
trap_vector_y(tc) ==
    IF 31 \in tc /\ Field(mtvec, 0, 1) = 1
    THEN {b + 2 : b \in tc \cap (0..29)}
    ELSE Word0

pc_mux(h, x, z, memdata_rd) ==
    IF h.pc_plus_4_to_pc THEN Add(pc, W(4))
    ELSE IF h.x_to_pc THEN x
    ELSE IF h.z_to_pc THEN z
    ELSE IF h.memaddr_to_pc THEN memaddr \ {0}
    ELSE IF h.memdata_to_pc THEN memdata_rd
    ELSE pc

memaddr_mux(h, x, z, memdata_rd) ==
    IF h.pc_plus_4_to_memaddr THEN Add(pc, W(4))
    ELSE IF h.x_to_memaddr THEN x
    ELSE IF h.z_to_memaddr THEN z
    ELSE IF h.memdata_to_memaddr THEN memdata_rd
    ELSE memaddr

\* mstatus_next without the bit moves of the end of trap entry.
mstatus_next_no_entry(h, num, z) ==
    LET m1 == csr_write(CSRAddr_MSTATUS, h, num, z, mstatus)
    IN  IF h.mret
        THEN ((m1 \ {MStatus_MIE}) \cup {MStatus_MPIE})
                 \cup (IF MStatus_MPIE \in mstatus THEN {MStatus_MIE} ELSE {})
        ELSE m1

\* mstatus_next with the end of trap entry clearing every bit but MPIE.
mstatus_next_entry_wipe(h, num, z) ==
    LET m1 == csr_write(CSRAddr_MSTATUS, h, num, z, mstatus)
    IN  IF h.mret
        THEN ((m1 \ {MStatus_MIE}) \cup {MStatus_MPIE})
                 \cup (IF MStatus_MPIE \in mstatus THEN {MStatus_MIE} ELSE {})
        ELSE IF h.trap_done
        THEN IF MStatus_MIE \in mstatus THEN {MStatus_MPIE} ELSE {}
        ELSE m1

\* mstatus on the ph1 edge: a CSR write, then the bit moves of MRET and of
\* the end of trap entry.
mstatus_next(h, num, z) ==
    LET m1 == csr_write(CSRAddr_MSTATUS, h, num, z, mstatus)
    IN  IF h.mret
        THEN ((m1 \ {MStatus_MIE}) \cup {MStatus_MPIE})
                 \cup (IF MStatus_MPIE \in mstatus THEN {MStatus_MIE} ELSE {})
        ELSE IF h.trap_done
        THEN (m1 \ {MStatus_MIE, MStatus_MPIE})
                 \cup (IF MStatus_MIE \in mstatus THEN {MStatus_MPIE} ELSE {})
        ELSE m1

\* irq_latch that never registers a line.
irq_latch_never(reg, line, clr) ==
    IF ~trap
    THEN IF MStatus_MIE \in mstatus THEN reg ELSE FALSE
    ELSE IF clr THEN FALSE ELSE reg

\* irq_latch that keeps the registered lines while MIE is 0.
irq_latch_keep(reg, line, clr) ==
    IF ~trap
    THEN IF MStatus_MIE \in mstatus
         THEN (IF ~reg THEN line ELSE reg)
         ELSE reg
    ELSE IF clr THEN FALSE ELSE reg

\* The registered irq lines.
irq_latch(reg, line, clr) ==
    IF ~trap
    THEN IF MStatus_MIE \in mstatus
         THEN (IF ~reg THEN line ELSE reg)
         ELSE FALSE
    ELSE IF clr THEN FALSE ELSE reg

(***************************************************************************)
(* One machine cycle.  The instruction latch is transparent during the     *)
(* read pulse, so a fetched word is decoded in the cycle that fetches it.  *)
(* _exception and _trap_cause are clocked on ph2 and change before the ph1 *)
(* edge that ends the cycle; every other register changes on that edge.    *)
(***************************************************************************)
instr_misalign == (pc \cap {0, 1} # {}) /\ ~trap

fetch == instr_phase = 0 /\ ~trap /\ ~instr_misalign

\* control with the opcode handlers dispatched on a misaligned pc too.
control_decode_first(ir) ==
    last_cycle(IF trap THEN handle_trap ELSE opcode_handler(ir))

\* The control signals of the cycle, for the instruction word ir.
control(ir) ==
    last_cycle(IF trap THEN handle_trap
               ELSE IF instr_misalign
               THEN set_exception(Defaults, EXC_INSTR_ADDR_MISALIGN, pc)
               ELSE opcode_handler(ir))

\* is_interrupted without the instr_complete condition.
is_interrupted_any_cycle(h, time_irq, ext_irq) ==
    /\ ~trap
    /\ ~trap_svc
    /\ (time_irq \/ ext_irq)
    /\ MStatus_MIE \in mstatus

is_interrupted(h, time_irq, ext_irq) ==
    /\ h.instr_complete
    /\ ~trap
    /\ ~trap_svc
    /\ (time_irq \/ ext_irq)
    /\ MStatus_MIE \in mstatus

\* _trap_cause and _exception after the ph2 edge.
trap_cause_ph2(h) ==
    IF h.exc THEN h.exc_cause
    ELSE IF h.trap_done THEN Word0
    ELSE IF h.irq_cause_ld THEN h.irq_cause
    ELSE trap_cause

exception_ph2(h) ==
    IF h.exc THEN TRUE ELSE IF h.trap_done THEN FALSE ELSE exception

csr_num_mux(h, ir) ==
    IF h.funct12_to_csr_num THEN funct12(ir)
    ELSE IF h.mepc_num_to_csr_num THEN CSRAddr_MEPC
    ELSE 0

data_x_out(h, ir, memdata_rd) ==
    IF h.mtvec_to_x THEN mtvec \ {0, 1}
    ELSE IF h.pc_to_x THEN pc
    ELSE IF h.memdata_to_x THEN memdata_rd
    ELSE IF h.csr_to_x THEN csr_read(csr_num_mux(h, ir))
    ELSE Word0

data_y_out(h, ir) ==
    IF h.mtvec_to_x THEN trap_vector_y(trap_cause_ph2(h))
    ELSE IF h.imm_to_y THEN decode_imm(ir, h.imm_format)
    ELSE IF h.shamt_to_y THEN W(h.shamt)
    ELSE Word0

data_z_out(h) ==
    IF h.pc_plus_4_to_z THEN Add(pc, W(4))
    ELSE IF h.tmp_to_z THEN tmp
    ELSE Word0

\* The buses: the register file drives X and Y when reg_to_x and reg_to_y
\* say so, the ALU drives Z when an operation is selected.
bus_x(h, ir, memdata_rd) ==
    IF h.reg_to_x THEN xreg[h.x_reg] ELSE data_x_out(h, ir, memdata_rd)

bus_y(h, ir) ==
    IF h.reg_to_y THEN xreg[h.y_reg] ELSE data_y_out(h, ir)

bus_z(h, x, y) ==
    IF h.alu_op_to_z # "NONE" THEN ALU(h.alu_op_to_z, x, y) ELSE data_z_out(h)

\* The ph1 edge that ends the cycle.
Commit(h, ir, num, x, y, z, irq, memdata_rd, time_irq, ext_irq) ==
    /\ exception' = exception_ph2(h)
    /\ trap_cause' = trap_cause_ph2(h)
    /\ instr' = ir
    /\ instr_phase' = h.next_instr_phase
    /\ stored_alu_eq' = alu_eq(x, y)
    /\ stored_alu_lt' = alu_lt(x, y)
    /\ stored_alu_ltu' = alu_ltu(x, y)
    /\ pc' = pc_mux(h, x, z, memdata_rd)
    /\ memaddr' = memaddr_mux(h, x, z, memdata_rd)
    /\ memdata_wr' = IF h.z_to_memdata THEN z ELSE memdata_wr
    /\ tmp' = IF h.x_to_tmp THEN x ELSE tmp
    /\ mtvec' = csr_write(CSRAddr_MTVEC, h, num, z, mtvec)
    /\ mcause' = IF h.trap_cause_to_mcause THEN trap_cause_ph2(h)
                 ELSE csr_write(CSRAddr_MCAUSE, h, num, z, mcause)
    /\ mepc' = IF h.exc \/ h.pc_to_mepc THEN pc
               ELSE csr_write(CSRAddr_MEPC, h, num, z, mepc)
    /\ mtval' = IF h.exc THEN h.exc_mtval
                ELSE csr_write(CSRAddr_MTVAL, h, num, z,
                               IF irq THEN pc ELSE mtval)
    /\ mstatus' = mstatus_next(h, num, z)
    /\ trap' = IF h.exc THEN TRUE
               ELSE IF h.trap_done THEN FALSE
               ELSE IF irq THEN TRUE
               ELSE trap
    /\ trap_svc' = IF h.trap_done THEN TRUE ELSE trap_svc
    /\ reg_time_irq' = irq_latch(reg_time_irq, time_irq, h.clr_time_irq)
    /\ reg_ext_irq' = irq_latch(reg_ext_irq, ext_irq, h.clr_ext_irq)
    /\ xreg' = regfile_write(xreg, h.z_reg, z)
    /\ sig' = [h EXCEPT !.csr_num = num,
                        !.mem_rd = (h.mem_rd \/ fetch),
                        !.load_instr = fetch,
                        !.in_trap = trap, !.phase = instr_phase,
                        !.instr_misalign = instr_misalign,
                        !.fetch = fetch,
                        !.is_interrupted = irq,
                        !.bus_x = x, !.bus_y = y, !.bus_z = z]
    /\ \E pend \in {IF instr_phase = 0 THEN z ELSE last.pend} :
           last' = IF trap \/ h.exc \/ irq
                   THEN [last EXCEPT !.ok = FALSE]
                   ELSE IF h.instr_complete
                   THEN [ok |-> TRUE, instr |-> ir, wval |-> pend, pend |-> pend]
                   ELSE [last EXCEPT !.pend = pend]
    /\ nfetch' = IF fetch THEN nfetch + 1 ELSE nfetch
    /\ irq_held' = irq_held
    /\ rom' = rom

Cycle(time_irq, ext_irq, memdata_rd) ==
    \E ir \in {IF fetch THEN memdata_rd ELSE instr} :
    \E h \in {control(ir)} :
    \E x \in {bus_x(h, ir, memdata_rd)}, y \in {bus_y(h, ir)} :
    \E z \in {bus_z(h, x, y)} :
           Commit(h, ir, csr_num_mux(h, ir), x, y, z,
                  is_interrupted(h, time_irq, ext_irq),
                  memdata_rd, time_irq, ext_irq)

\* fatal is combinational: raised in the second trap phase while an
\* exception is pending.
fatal == trap /\ instr_phase # 0 /\ exception

(***************************************************************************)
(* SequencerROM: a lookup table, its outputs a pure function of its        *)
(* address lines.  The outputs modelled are those that sequence the        *)
(* instruction, those that move a CSR, those that raise a trap and those   *)
(* that shift and mask the data of a LOAD or STORE; exc_const is _const    *)
(* (an exception cause or a shift amount) and exc_mepc is y_mux_select as  *)
(* set_exception drives it.                                                *)
(***************************************************************************)
OpcodeSelect_NONE == 0
OpcodeSelect_LOAD == 1
OpcodeSelect_STORE == 2
OpcodeSelect_OP == 3
OpcodeSelect_BRANCH == 4
OpcodeSelect_CSRS == 5
OpcodeSelect_LUI == 6
OpcodeSelect_JALR == 7
OpcodeSelect_AUIPC == 8
OpcodeSelect_JAL == 9
OpcodeSelect_OP_IMM == 10
OpcodeSelect_MRET == 11
OpcodeSelect_ECALL == 12
OpcodeSelect_EBREAK == 13

ConstSelect_EXC_INSTR_ADDR_MISALIGN == 0
ConstSelect_EXC_ILLEGAL_INSTR == 1
ConstSelect_EXC_BREAKPOINT == 2
ConstSelect_EXC_LOAD_ADDR_MISALIGN == 3
ConstSelect_EXC_STORE_AMO_ADDR_MISALIGN == 4
ConstSelect_EXC_ECALL_FROM_MACH_MODE == 5
ConstSelect_SHAMT_0 == 8
ConstSelect_SHAMT_8 == 10
ConstSelect_SHAMT_16 == 11
ConstSelect_SHAMT_24 == 12

\* The shift amount a SHAMT selector of ConstSelect stands for.
const_shamt(c) ==
    CASE c = ConstSelect_SHAMT_0  -> 0
      [] c = ConstSelect_SHAMT_8  -> 8
      [] c = ConstSelect_SHAMT_16 -> 16
      [] c = ConstSelect_SHAMT_24 -> 24
      [] OTHER -> -1

RomDefaults ==
    [ set_instr_complete |-> FALSE, next_instr_phase |-> 0,
      pc_mux_select |-> "PC", memaddr_mux_select |-> "MEMADDR",
      z_reg_select |-> "ZERO",
      reg_to_x |-> FALSE, reg_to_y |-> FALSE,
      mem_rd |-> FALSE, mem_wr |-> FALSE,
      csr_to_x |-> FALSE, z_to_csr |-> FALSE,
      funct12_to_csr_num |-> FALSE, mepc_num_to_csr_num |-> FALSE,
      tmp_mux_select |-> "TMP", z_mux_select |-> "Z",
      enter_trap |-> FALSE, exit_trap |-> FALSE, save_trap_csrs |-> FALSE,
      load_trap |-> FALSE, next_trap |-> FALSE,
      load_exception |-> FALSE, next_exception |-> FALSE,
      next_fatal |-> FALSE,
      exc_const |-> 0, exc_mepc |-> "Y",
      alu_op_to_z |-> "NONE", mem_wr_mask |-> 0,
      memdata_wr_mux_select |-> "MEMDATA_WR" ]

rom_next_instr(o, next_pc) ==
    LET p == [o EXCEPT !.set_instr_complete = TRUE]
    IN  CASE next_pc = "PC_PLUS_4" ->
                 [p EXCEPT !.pc_mux_select = "PC_PLUS_4",
                           !.memaddr_mux_select = "PC_PLUS_4"]
          [] next_pc = "MEMADDR" -> [p EXCEPT !.pc_mux_select = "MEMADDR"]
          [] next_pc = "MEMADDR_NO_LSB" ->
                 [p EXCEPT !.pc_mux_select = "MEMADDR_LSB_MASKED"]
          [] next_pc = "Z" ->
                 [p EXCEPT !.pc_mux_select = "Z", !.memaddr_mux_select = "Z"]
          [] next_pc = "X" ->
                 [p EXCEPT !.pc_mux_select = "X", !.memaddr_mux_select = "X"]

\* set_exception whose fatal argument is ignored and taken as False.
rom_set_exception_never_fatal(o, exc, mtv, is_fatal) ==
    [o EXCEPT !.load_exception = TRUE, !.next_exception = TRUE,
              !.next_fatal = FALSE,
              !.exc_const = exc, !.z_mux_select = mtv,
              !.exc_mepc = "PC_PLUS_4",
              !.save_trap_csrs = TRUE, !.load_trap = TRUE, !.next_trap = TRUE,
              !.next_instr_phase = 0]

rom_set_exception(o, exc, mtv, is_fatal) ==
    [o EXCEPT !.load_exception = TRUE, !.next_exception = TRUE,
              !.next_fatal = is_fatal,
              !.exc_const = exc, !.z_mux_select = mtv,
              !.exc_mepc = IF is_fatal THEN "PC" ELSE "PC_PLUS_4",
              !.save_trap_csrs = TRUE, !.load_trap = TRUE, !.next_trap = TRUE,
              !.next_instr_phase = 0]

rom_handle_illegal_instr(o) ==
    rom_set_exception(o, ConstSelect_EXC_ILLEGAL_INSTR, "INSTR", TRUE)

RomAluFuncs ==
    { AluFunc_ADD, AluFunc_SUB, AluFunc_SLL, AluFunc_SLT, AluFunc_SLTU,
      AluFunc_XOR, AluFunc_SRL, AluFunc_SRA, AluFunc_OR, AluFunc_AND }

\* handle_lui, handle_auipc: LUI reads x0 onto X, AUIPC puts the PC there.
rom_handle_upper(i) ==
    rom_next_instr([RomDefaults EXCEPT
                        !.reg_to_x = (i.opcode_select = OpcodeSelect_LUI),
                        !.alu_op_to_z = "ADD",
                        !.z_reg_select = "RD"],
                   "PC_PLUS_4")

\* handle_op_imm, handle_op: rs1 on X, and rs2 on Y for OP.
rom_handle_op(i) ==
    IF i.alu_func \notin RomAluFuncs THEN rom_handle_illegal_instr(RomDefaults)
    ELSE rom_next_instr([RomDefaults EXCEPT
                            !.reg_to_x = TRUE,
                            !.reg_to_y = (i.opcode_select = OpcodeSelect_OP),
                            !.alu_op_to_z = AluFuncOp(i.alu_func),
                            !.z_reg_select = "RD"],
                        "PC_PLUS_4")

\* handle_jal, handle_jalr; mtv is the mtval selection of the exception.
rom_handle_jump(i, mtv) ==
    IF i.instr_phase = 0
    THEN [RomDefaults EXCEPT !.reg_to_x = (i.opcode_select = OpcodeSelect_JALR),
                             !.alu_op_to_z = "ADD",
                             !.memaddr_mux_select = "Z", !.next_instr_phase = 1]
    ELSE IF i.memaddr_2_lsb \div 2 # 0
    THEN rom_set_exception(RomDefaults, ConstSelect_EXC_INSTR_ADDR_MISALIGN,
                           mtv, TRUE)
    ELSE rom_next_instr([RomDefaults EXCEPT !.z_mux_select = "PC_PLUS_4",
                                            !.z_reg_select = "RD"],
                        "MEMADDR_NO_LSB")

\* handle_branch whose phase 0 leaves the ALU idle.
rom_handle_branch_no_sub(i) ==
    IF i.instr_phase = 0
    THEN [RomDefaults EXCEPT !.reg_to_x = TRUE, !.reg_to_y = TRUE,
                             !.next_instr_phase = 1]
    ELSE IF i.instr_phase = 1
    THEN IF ~branch_legal(i.funct3) THEN rom_handle_illegal_instr(RomDefaults)
         ELSE IF i.data_z_in_2_lsb0
         THEN rom_next_instr([RomDefaults EXCEPT !.alu_op_to_z = "ADD"], "Z")
         ELSE [RomDefaults EXCEPT !.alu_op_to_z = "ADD",
                                  !.next_instr_phase = 2,
                                  !.tmp_mux_select = "Z"]
    ELSE rom_set_exception(RomDefaults, ConstSelect_EXC_INSTR_ADDR_MISALIGN,
                           "TMP", TRUE)

rom_handle_branch(i) ==
    IF i.instr_phase = 0
    THEN [RomDefaults EXCEPT !.reg_to_x = TRUE, !.reg_to_y = TRUE,
                             !.alu_op_to_z = "SUB", !.next_instr_phase = 1]
    ELSE IF i.instr_phase = 1
    THEN IF ~branch_legal(i.funct3) THEN rom_handle_illegal_instr(RomDefaults)
         ELSE IF i.data_z_in_2_lsb0
         THEN rom_next_instr([RomDefaults EXCEPT !.alu_op_to_z = "ADD"], "Z")
         ELSE [RomDefaults EXCEPT !.alu_op_to_z = "ADD",
                                  !.next_instr_phase = 2,
                                  !.tmp_mux_select = "Z"]
    ELSE rom_set_exception(RomDefaults, ConstSelect_EXC_INSTR_ADDR_MISALIGN,
                           "TMP", TRUE)

\* handle_load: _const in phase 1 (the Switch leaves it at its default where
\* it has no case) and _const and alu_op_to_z in phase 2.
rom_load_shamt1(f3, lsb) ==
    CASE f3 \in {MemAccessWidth_B, MemAccessWidth_BU} ->
             (CASE lsb = 0 -> ConstSelect_SHAMT_24
                [] lsb = 1 -> ConstSelect_SHAMT_16
                [] lsb = 2 -> ConstSelect_SHAMT_8
                [] OTHER   -> ConstSelect_SHAMT_0)
      [] f3 \in {MemAccessWidth_H, MemAccessWidth_HU} ->
             (CASE lsb = 0 -> ConstSelect_SHAMT_16
                [] lsb = 2 -> ConstSelect_SHAMT_0
                [] OTHER   -> 0)
      [] f3 = MemAccessWidth_W -> ConstSelect_SHAMT_0
      [] OTHER -> 0

rom_load_shamt2(f3) ==
    CASE f3 \in {MemAccessWidth_B, MemAccessWidth_BU} -> ConstSelect_SHAMT_24
      [] f3 \in {MemAccessWidth_H, MemAccessWidth_HU} -> ConstSelect_SHAMT_16
      [] f3 = MemAccessWidth_W -> ConstSelect_SHAMT_0
      [] OTHER -> 0

rom_load_shift2(f3) ==
    CASE f3 \in {MemAccessWidth_B, MemAccessWidth_H} -> "SRA"
      [] f3 \in {MemAccessWidth_BU, MemAccessWidth_HU, MemAccessWidth_W} -> "SRL"
      [] OTHER -> "NONE"

rom_handle_load(i) ==
    IF i.instr_phase = 0
    THEN [RomDefaults EXCEPT !.reg_to_x = TRUE, !.alu_op_to_z = "ADD",
                             !.memaddr_mux_select = "Z", !.next_instr_phase = 1]
    ELSE IF i.instr_phase = 1
    THEN IF i.funct3 \in {MemAccessWidth_H, MemAccessWidth_HU}
              /\ i.memaddr_2_lsb % 2 = 1
         THEN rom_set_exception(RomDefaults, ConstSelect_EXC_LOAD_ADDR_MISALIGN,
                                "MEMADDR", TRUE)
         ELSE IF i.funct3 = MemAccessWidth_W /\ i.memaddr_2_lsb # 0
         THEN rom_set_exception(RomDefaults, ConstSelect_EXC_LOAD_ADDR_MISALIGN,
                                "MEMADDR", TRUE)
         ELSE IF i.funct3 \notin {MemAccessWidth_B, MemAccessWidth_BU,
                                   MemAccessWidth_H, MemAccessWidth_HU,
                                   MemAccessWidth_W}
         THEN rom_handle_illegal_instr(RomDefaults)
         ELSE [RomDefaults EXCEPT !.mem_rd = TRUE, !.z_reg_select = "RD",
                                  !.alu_op_to_z = "SLL",
                                  !.exc_const = rom_load_shamt1(i.funct3,
                                                                i.memaddr_2_lsb),
                                  !.next_instr_phase = 2]
    ELSE rom_next_instr([RomDefaults EXCEPT
                            !.reg_to_x = TRUE,
                            !.z_reg_select = "RD",
                            !.exc_const = rom_load_shamt2(i.funct3),
                            !.alu_op_to_z = rom_load_shift2(i.funct3)],
                        "PC_PLUS_4")

\* handle_store: _const in phase 1 and mem_wr_mask in phase 2.
rom_store_shamt(f3, lsb) ==
    CASE f3 = MemAccessWidth_B ->
             (CASE lsb = 0 -> ConstSelect_SHAMT_0
                [] lsb = 1 -> ConstSelect_SHAMT_8
                [] lsb = 2 -> ConstSelect_SHAMT_16
                [] OTHER   -> ConstSelect_SHAMT_24)
      [] f3 = MemAccessWidth_H ->
             (CASE lsb = 0 -> ConstSelect_SHAMT_0
                [] lsb = 2 -> ConstSelect_SHAMT_16
                [] OTHER   -> 0)
      [] f3 = MemAccessWidth_W -> ConstSelect_SHAMT_0
      [] OTHER -> 0

rom_store_mask(f3, lsb) ==
    CASE f3 = MemAccessWidth_B -> 2 ^ lsb
      [] f3 = MemAccessWidth_H /\ lsb = 0 -> 3
      [] f3 = MemAccessWidth_H /\ lsb = 2 -> 12
      [] f3 = MemAccessWidth_W -> 15
      [] OTHER -> 0

rom_handle_store(i) ==
    IF i.instr_phase = 0
    THEN [RomDefaults EXCEPT !.reg_to_x = TRUE, !.alu_op_to_z = "ADD",
                             !.memaddr_mux_select = "Z", !.next_instr_phase = 1]
    ELSE IF i.instr_phase = 1
    THEN IF i.funct3 = MemAccessWidth_H /\ i.memaddr_2_lsb % 2 = 1
         THEN rom_set_exception(RomDefaults,
                                ConstSelect_EXC_STORE_AMO_ADDR_MISALIGN,
                                "MEMADDR", TRUE)
         ELSE IF i.funct3 = MemAccessWidth_W /\ i.memaddr_2_lsb # 0
         THEN rom_set_exception(RomDefaults,
                                ConstSelect_EXC_STORE_AMO_ADDR_MISALIGN,
                                "MEMADDR", TRUE)
         ELSE IF i.funct3 \notin {MemAccessWidth_B, MemAccessWidth_H,
                                   MemAccessWidth_W}
         THEN rom_handle_illegal_instr(RomDefaults)
         ELSE [RomDefaults EXCEPT !.reg_to_x = TRUE,
                                  !.alu_op_to_z = "SLL",
                                  !.memdata_wr_mux_select = "Z",
                                  !.exc_const = rom_store_shamt(i.funct3,
                                                                i.memaddr_2_lsb),
                                  !.next_instr_phase = 2]
    ELSE rom_next_instr([RomDefaults EXCEPT
                            !.mem_wr = TRUE,
                            !.mem_wr_mask = rom_store_mask(i.funct3,
                                                           i.memaddr_2_lsb)],
                        "PC_PLUS_4")

\* handle_csrs and the six CSR handlers: the CSR (x0 for a CSRRW or CSRRWI
\* with rd = x0) goes to X and to tmp in phase 0, where the ALU combines it
\* with rs1 or the immediate on Y; tmp goes to rd in phase 1.
rom_handle_csrs(i) ==
    LET f3 == i.funct3
        op == CASE f3 \in {SystemFunc_CSRRW, SystemFunc_CSRRWI} -> "Y"
                [] f3 \in {SystemFunc_CSRRS, SystemFunc_CSRRSI} -> "OR"
                [] OTHER -> "AND_NOT"
        wr == CASE f3 \in {SystemFunc_CSRRW, SystemFunc_CSRRWI} -> TRUE
                [] f3 \in {SystemFunc_CSRRS, SystemFunc_CSRRC} -> ~i.rs1_0
                [] OTHER -> ~i.imm0
        rdx == IF f3 \in {SystemFunc_CSRRW, SystemFunc_CSRRWI} THEN ~i.rd0
               ELSE TRUE
        a == [RomDefaults EXCEPT !.funct12_to_csr_num = TRUE]
    IN  IF f3 \notin {SystemFunc_CSRRW, SystemFunc_CSRRWI, SystemFunc_CSRRS,
                      SystemFunc_CSRRSI, SystemFunc_CSRRC, SystemFunc_CSRRCI}
        THEN rom_handle_illegal_instr(RomDefaults)
        ELSE IF i.instr_phase = 0
        THEN [a EXCEPT !.csr_to_x = rdx, !.reg_to_x = ~rdx,
                       !.reg_to_y = (f3 \in {SystemFunc_CSRRW, SystemFunc_CSRRS,
                                             SystemFunc_CSRRC}),
                       !.alu_op_to_z = op, !.z_to_csr = wr,
                       !.tmp_mux_select = "X", !.next_instr_phase = 1]
        ELSE rom_next_instr([a EXCEPT !.z_mux_select = "TMP",
                                      !.z_reg_select = "RD"],
                            "PC_PLUS_4")

rom_handle_MRET(i) ==
    rom_next_instr([RomDefaults EXCEPT !.mepc_num_to_csr_num = TRUE,
                                       !.csr_to_x = TRUE, !.exit_trap = TRUE],
                   "X")

rom_handle_ECALL(i) ==
    rom_set_exception(RomDefaults, ConstSelect_EXC_ECALL_FROM_MACH_MODE,
                      "PC", FALSE)

rom_handle_EBREAK(i) ==
    rom_set_exception(RomDefaults, ConstSelect_EXC_BREAKPOINT, "PC", FALSE)

\* elaborate: the outputs for the address lines i.
SequencerROM(i) ==
    IF ~i.enable_sequencer_rom THEN RomDefaults
    ELSE LET sel == i.opcode_select
         IN  CASE sel \in {OpcodeSelect_LUI, OpcodeSelect_AUIPC} -> rom_handle_upper(i)
               [] sel \in {OpcodeSelect_OP_IMM, OpcodeSelect_OP} -> rom_handle_op(i)
               [] sel = OpcodeSelect_JAL    -> rom_handle_jump(i, "MEMADDR")
               [] sel = OpcodeSelect_JALR   -> rom_handle_jump(i, "MEMADDR_LSB_MASKED")
               [] sel = OpcodeSelect_BRANCH -> rom_handle_branch(i)
               [] sel = OpcodeSelect_LOAD   -> rom_handle_load(i)
               [] sel = OpcodeSelect_STORE  -> rom_handle_store(i)
               [] sel = OpcodeSelect_CSRS   -> rom_handle_csrs(i)
               [] sel = OpcodeSelect_MRET   -> rom_handle_MRET(i)
               [] sel = OpcodeSelect_ECALL  -> rom_handle_ECALL(i)
               [] sel = OpcodeSelect_EBREAK -> rom_handle_EBREAK(i)
               [] OTHER                     -> rom_handle_illegal_instr(RomDefaults)

\* The address lines at rest.
RomIdle ==
    [ enable_sequencer_rom |-> FALSE, opcode_select |-> OpcodeSelect_NONE,
      instr_phase |-> 0, memaddr_2_lsb |-> 0, branch_cond |-> FALSE,
      data_z_in_2_lsb0 |-> FALSE, imm0 |-> FALSE, rd0 |-> FALSE,
      rs1_0 |-> FALSE, funct3 |-> 0, alu_func |-> 0 ]

\* The sequencer card's registers and the register file.
cardvars ==
    << pc, instr_phase, instr, stored_alu_eq, stored_alu_lt, stored_alu_ltu,
       memaddr, memdata_wr, tmp, reg_time_irq, reg_ext_irq,
       trap, trap_svc, exception, trap_cause,
       mtvec, mcause, mepc, mtval, mstatus, xreg, sig, last, nfetch >>

\* The ROM is read at one of the addresses of I.
RomLookup(I) ==
    /\ \E i \in I : rom' = [inp |-> i, out |-> SequencerROM(i)]
    /\ UNCHANGED << cardvars, irq_held >>

(***************************************************************************)
(* Instruction words.                                                      *)
(***************************************************************************)
EncI(op, d, f3, s1, imm12) ==
    Bits(op, 0) \cup Bits(d, 7) \cup Bits(f3, 12) \cup Bits(s1, 15)
        \cup Bits(imm12, 20)

EncR(op, d, f3, s1, s2, f7) ==
    Bits(op, 0) \cup Bits(d, 7) \cup Bits(f3, 12) \cup Bits(s1, 15)
        \cup Bits(s2, 20) \cup Bits(f7, 25)

EncS(op, f3, s1, s2, imm12) ==
    Bits(op, 0) \cup Bits(imm12 % 32, 7) \cup Bits(f3, 12) \cup Bits(s1, 15)
        \cup Bits(s2, 20) \cup Bits(imm12 \div 32, 25)

\* imm is the byte offset, 0 <= imm < 2^12.
EncB(f3, s1, s2, imm) ==
    Bits(Opcode_BRANCH, 0) \cup Bits((imm \div 2048) % 2, 7)
        \cup Bits((imm \div 2) % 16, 8) \cup Bits(f3, 12) \cup Bits(s1, 15)
        \cup Bits(s2, 20) \cup Bits((imm \div 32) % 64, 25)

\* imm is the byte offset, 0 <= imm < 2^12.
EncJ(op, d, imm) ==
    Bits(op, 0) \cup Bits(d, 7) \cup Bits((imm \div 2048) % 2, 20)
        \cup Bits((imm \div 2) % 1024, 21)

EncU(op, d, imm20) == Bits(op, 0) \cup Bits(d, 7) \cup Bits(imm20, 12)

CSRRW(d, csr, s1) == EncI(Opcode_SYSTEM, d, SystemFunc_CSRRW, s1, csr)
CSRRS(d, csr, s1) == EncI(Opcode_SYSTEM, d, SystemFunc_CSRRS, s1, csr)
CSRRC(d, csr, s1) == EncI(Opcode_SYSTEM, d, SystemFunc_CSRRC, s1, csr)
CSRRWI(d, csr, u) == EncI(Opcode_SYSTEM, d, SystemFunc_CSRRWI, u, csr)
CSRRSI(d, csr, u) == EncI(Opcode_SYSTEM, d, SystemFunc_CSRRSI, u, csr)
CSRRCI(d, csr, u) == EncI(Opcode_SYSTEM, d, SystemFunc_CSRRCI, u, csr)
MRET == EncI(Opcode_SYSTEM, 0, SystemFunc_PRIV, 0, PrivFunc_MRET)
ECALL == EncI(Opcode_SYSTEM, 0, SystemFunc_PRIV, 0, PrivFunc_ECALL)
EBREAK == EncI(Opcode_SYSTEM, 0, SystemFunc_PRIV, 0, PrivFunc_EBREAK)
ADDI(d, s1, imm12) == EncI(Opcode_OP_IMM, d, AluFunc_ADD, s1, imm12)

JAL(d, imm) == EncJ(Opcode_JAL, d, imm)
JALR(d, s1, imm12) == EncI(Opcode_JALR, d, 0, s1, imm12)
LOAD(d, f3, s1, imm12) == EncI(Opcode_LOAD, d, f3, s1, imm12)
STORE(f3, s1, s2, imm12) == EncS(Opcode_STORE, f3, s1, s2, imm12)

(***************************************************************************)
(* Reset state.  Every register of SequencerState resets to 0.  The        *)
(* register file is outside the sequencer: x1 and x2 start with values     *)
(* drawn from X1 and X2, the other registers with 0.                       *)
(***************************************************************************)
InitCard(X1, X2) ==
    /\ pc = Word0 /\ instr_phase = 0 /\ instr = Word0
    /\ stored_alu_eq = FALSE /\ stored_alu_lt = FALSE /\ stored_alu_ltu = FALSE
    /\ memaddr = Word0 /\ memdata_wr = Word0 /\ tmp = Word0
    /\ reg_time_irq = FALSE /\ reg_ext_irq = FALSE
    /\ trap = FALSE /\ trap_svc = FALSE
    /\ exception = FALSE /\ trap_cause = Word0
    /\ mtvec = Word0 /\ mcause = Word0 /\ mepc = Word0 /\ mtval = Word0
    /\ mstatus = Word0
    /\ \E v1 \in X1, v2 \in X2 :
           xreg = [i \in 0..31 |-> IF i = 1 THEN v1 ELSE IF i = 2 THEN v2 ELSE Word0]
    /\ sig = Defaults
    /\ last = [ok |-> FALSE, instr |-> Word0, wval |-> Word0, pend |-> Word0]
    /\ nfetch = 0
    /\ irq_held = "free"

\* The card at reset, the ROM disabled.
InitWith(X1, X2) ==
    /\ InitCard(X1, X2)
    /\ rom = [inp |-> RomIdle, out |-> RomDefaults]

\* The card at reset, the ROM with an address of I on its lines and its
\* outputs not yet read.
InitRom(X1, X2, I) ==
    /\ InitCard(X1, X2)
    /\ \E i \in I : rom = [inp |-> i, out |-> RomDefaults]

\* The ROM's outputs are read at the address on its lines.
ReadRom == RomLookup({rom.inp})

\* A step of the card: the ROM is not read.
CardStep == rom' = rom

\* What the memory bus can return in the current state: an instruction of
\* the program P on a fetch, a vector of V in the second trap phase, a data
\* word of D in the read phase of a LOAD.
\* The levels the interrupt lines can take in the current cycle.  irq_held
\* is the environment's: "free" when both lines move freely, "time" once
\* time_irq is held high, "ext" once ext_irq is held high with time_irq low.
time_irq_levels ==
    IF irq_held = "time" THEN { TRUE }
    ELSE IF irq_held = "ext" THEN { FALSE }
    ELSE BOOLEAN

ext_irq_levels == IF irq_held = "ext" THEN { TRUE } ELSE BOOLEAN

\* The environment starts to hold one of the lines, for good.
Hold ==
    /\ irq_held = "free"
    /\ irq_held' \in { "time", "ext" }
    /\ UNCHANGED << cardvars, rom >>

MemIn(P, D, V) ==
    IF trap THEN (IF instr_phase = 0 THEN {Word0} ELSE V)
    ELSE IF instr_phase = 0 THEN P
    ELSE IF instr_phase = 1 /\ opcode(instr) = Opcode_LOAD THEN D
    ELSE {Word0}

\* A run of the machine on the program P: one machine cycle, with the irq
\* lines drawn from I, fetching at most n instructions.
Run(P, D, V, I, n) ==
    /\ fetch => nfetch < n
    /\ \E time_irq \in I, ext_irq \in I :
           \E memdata_rd \in MemIn(P, D, V) :
               Cycle(time_irq, ext_irq, memdata_rd)

\* One machine cycle with the interrupt lines as the environment holds them.
RunHeld(P, D, V, n) ==
    /\ fetch => nfetch < n
    /\ \E time_irq \in time_irq_levels, ext_irq \in ext_irq_levels :
           \E memdata_rd \in MemIn(P, D, V) :
               Cycle(time_irq, ext_irq, memdata_rd)

(***************************************************************************)
(* Spec: traps, interrupts, MRET and jumps.                                *)
(***************************************************************************)
Prog ==
    { CSRRWI(0, CSRAddr_MEPC, 2),
      CSRRSI(0, CSRAddr_MSTATUS, 8),
      CSRRW(0, CSRAddr_MTVEC, 1),
      MRET,
      JAL(0, 8),
      ADDI(2, 0, 4),
      Word0 }

Vectors == { W(64), W(66) }

\* The ROM's address for MRET.
RomMretInputs ==
    { [RomIdle EXCEPT !.enable_sequencer_rom = TRUE,
                      !.opcode_select = OpcodeSelect_MRET] }

Init == InitRom({ W(129) }, { Word0 }, RomMretInputs)

Next == Run(Prog, {Word0}, Vectors, BOOLEAN, MaxInstr) \/ ReadRom

Spec == Init /\ [][Next]_vars

(***************************************************************************)
(* SpecCSR: the CSR instructions, on every recognised CSR address.         *)
(***************************************************************************)
RecognisedCSR ==
    { CSRAddr_MSTATUS, CSRAddr_MIE, CSRAddr_MTVEC, CSRAddr_MEPC,
      CSRAddr_MCAUSE, CSRAddr_MTVAL, CSRAddr_MIP }

ProgCSR ==
    { CSRRW(0, c, 1) : c \in RecognisedCSR }
        \cup { CSRRW(2, c, 0) : c \in RecognisedCSR }

InitCSR == InitWith({ W(137), {2, 31} }, { Word0 })

NextCSR == Run(ProgCSR, {Word0}, {W(64)}, BOOLEAN, MaxCsrInstr)

SpecCSR == InitCSR /\ [][NextCSR]_vars

(***************************************************************************)
(* SpecRead: the CSR reads that must not write (CSRRS/CSRRC with rs1 = x0, *)
(* CSRRSI/CSRRCI with a zero immediate), on a CSR the card implements and  *)
(* on one it does not, after an instruction that loads mtvec or enables    *)
(* interrupts; and the ROM at the addresses of these reads, where rs1_0    *)
(* and imm0 are the lines that say the rs1 field and the immediate are 0.  *)
(***************************************************************************)
ReadCSR == { CSRAddr_MTVEC, CSRAddr_MIE }

ProgRead ==
    { CSRRW(0, CSRAddr_MTVEC, 1), CSRRSI(0, CSRAddr_MSTATUS, 8) }
        \cup { CSRRS(2, c, 0) : c \in ReadCSR }
        \cup { CSRRC(2, c, 0) : c \in ReadCSR }
        \cup { CSRRSI(2, c, 0) : c \in ReadCSR }
        \cup { CSRRCI(2, c, 0) : c \in ReadCSR }

RomReadInputs ==
    { [RomIdle EXCEPT !.enable_sequencer_rom = TRUE,
                      !.opcode_select = OpcodeSelect_CSRS,
                      !.funct3 = f, !.instr_phase = p,
                      !.rs1_0 = TRUE, !.imm0 = TRUE] :
        f \in { SystemFunc_CSRRS, SystemFunc_CSRRC,
                SystemFunc_CSRRSI, SystemFunc_CSRRCI },
        p \in 0..1 }

InitRead == InitRom({ W(137) }, { Word0 }, RomReadInputs)

NextRead == Run(ProgRead, {Word0}, {W(64)}, BOOLEAN, MaxReadInstr) \/ ReadRom

SpecRead == InitRead /\ [][NextRead]_vars

(***************************************************************************)
(* SpecMem: loads and stores of every width, at base addresses 0 and 3.    *)
(***************************************************************************)
ProgMem ==
    { LOAD(5, f3, 2, 1) : f3 \in {MemAccessWidth_B, MemAccessWidth_H,
                                   MemAccessWidth_W, MemAccessWidth_HU} }
        \cup { STORE(f3, 2, 1, 1) : f3 \in {MemAccessWidth_B, MemAccessWidth_H,
                                            MemAccessWidth_W} }
        \cup { LOAD(5, MemAccessWidth_W, 2, 2), STORE(MemAccessWidth_W, 2, 1, 2) }

DataMem == { {0, 4, 15, 23, 31} }

InitMem == InitWith({ W(129) }, { Word0, W(3) })

NextMem == Run(ProgMem, DataMem, {W(64)}, {FALSE}, MaxMemInstr)

SpecMem == InitMem /\ [][NextMem]_vars

(***************************************************************************)
(* SpecIllegal: one word of every class of instruction word.               *)
(***************************************************************************)
ProgIllegal ==
    { Word0, 0..31,
      EncI(Opcode_MISC_MEM, 0, 0, 0, 0),
      ECALL, EBREAK, MRET,
      EncI(Opcode_SYSTEM, 0, SystemFunc_PRIV, 0, PrivFunc_URET),
      EncI(Opcode_SYSTEM, 0, SystemFunc_PRIV, 0, PrivFunc_SRET),
      EncI(Opcode_SYSTEM, 0, SystemFunc_PRIV, 0, PrivFunc_WFI),
      EncI(Opcode_SYSTEM, 1, SystemFunc_PRIV, 0, PrivFunc_MRET),
      EncI(Opcode_SYSTEM, 0, SystemFunc_PRIV, 1, PrivFunc_MRET),
      EncI(Opcode_SYSTEM, 1, 4, 0, CSRAddr_MTVEC),
      CSRRS(2, CSRAddr_MTVEC, 0),
      LOAD(5, 3, 0, 0), LOAD(5, MemAccessWidth_W, 0, 0),
      STORE(3, 0, 1, 0),
      EncB(2, 0, 0, 8), EncB(BranchCond_EQ, 0, 0, 8),
      EncR(Opcode_OP, 1, 1, 1, 2, 32),
      ADDI(1, 0, 4),
      JAL(0, 8),
      EncU(Opcode_LUI, 1, 1) }

InitIllegal == InitWith({ W(129) }, { Word0 })

NextIllegal == Run(ProgIllegal, DataMem, {W(64)}, {FALSE}, MaxIllegalInstr)

SpecIllegal == InitIllegal /\ [][NextIllegal]_vars

(***************************************************************************)
(* SpecFatal: the card on programs that raise each of its exceptions and   *)
(* take interrupts, and the ROM read at the addresses where it raises      *)
(* each of its exceptions or completes an instruction.                     *)
(***************************************************************************)
ProgFatal ==
    { Word0,                          \* illegal instruction
      JAL(0, 2),                      \* misaligned target
      LOAD(5, MemAccessWidth_H, 2, 1),    \* LH x5, 1(x2)
      STORE(MemAccessWidth_W, 2, 1, 2),   \* SW x1, 2(x2)
      ECALL,
      EBREAK,
      CSRRSI(0, CSRAddr_MSTATUS, 8),  \* enables interrupts
      CSRRW(0, CSRAddr_MTVEC, 1) }    \* vectored mtvec

RomSelects ==
    { OpcodeSelect_NONE, OpcodeSelect_LOAD, OpcodeSelect_STORE,
      OpcodeSelect_OP, OpcodeSelect_BRANCH, OpcodeSelect_CSRS,
      OpcodeSelect_JAL, OpcodeSelect_JALR, OpcodeSelect_MRET,
      OpcodeSelect_ECALL, OpcodeSelect_EBREAK }

\* Addresses of the ROM: each select with a word-wide funct3 (CSRRS for
\* CSRS) and alu_func ADD, in phase 1 on a misaligned memaddr and in phase 2
\* on an aligned one.
RomFatalInputs ==
    { [RomIdle EXCEPT !.enable_sequencer_rom = TRUE,
                      !.opcode_select = s,
                      !.instr_phase = pl[1], !.memaddr_2_lsb = pl[2],
                      !.funct3 = MemAccessWidth_W, !.alu_func = AluFunc_ADD] :
        s \in RomSelects, pl \in { << 1, 2 >>, << 2, 0 >> } }

InitFatal == InitRom({ W(129) }, { Word0 }, RomFatalInputs)

NextFatal == Run(ProgFatal, DataMem, Vectors, BOOLEAN, MaxFatalInstr) \/ ReadRom

SpecFatal == InitFatal /\ [][NextFatal]_vars

\* Interrupts: a program that enables interrupts and sets a vectored mtvec
\* at 0x80, then computes, stores and jumps, with both interrupt lines free
\* in every cycle.
ProgIrq ==
    { CSRRSI(0, CSRAddr_MSTATUS, 8),
      CSRRW(0, CSRAddr_MTVEC, 1),
      ADDI(2, 0, 4),                      \* ADDI x2, x0, 4
      STORE(MemAccessWidth_W, 0, 1, 4),   \* SW x1, 4(x0)
      JAL(1, 8) }                         \* JAL x1, +8

InitIrq == InitWith({ W(129) }, { Word0 })

NextIrq == Run(ProgIrq, { Word0 }, Vectors, BOOLEAN, MaxIrqInstr)

SpecIrq == InitIrq /\ [][NextIrq]_vars

\* Interrupts under a running clock: a program that enables interrupts and
\* neither clears MIE nor raises an exception, with the interrupt lines free
\* until the environment holds one of them; the clock never stops while the
\* card can take a cycle.
ProgLive ==
    { CSRRSI(0, CSRAddr_MSTATUS, 8),
      ADDI(2, 0, 4),                      \* ADDI x2, x0, 4
      STORE(MemAccessWidth_W, 0, 1, 4) }  \* SW x1, 4(x0)

InitLive == InitWith({ W(129) }, { Word0 })

ClockLive == RunHeld(ProgLive, { Word0 }, { W(64) }, MaxLiveInstr)

NextLive == ClockLive \/ Hold

SpecLive == InitLive /\ [][NextLive]_vars /\ WF_vars(ClockLive)

\* Control transfers: jumps and branches to aligned and to misaligned
\* targets, without interrupts.
ProgJump ==
    { JAL(1, 8),                          \* JAL x1, +8
      JAL(1, 6),                          \* JAL x1, +6: misaligned
      JALR(5, 2, 2),                      \* JALR x5, 2(x2): misaligned
      JALR(5, 2, 4),                      \* JALR x5, 4(x2)
      EncB(BranchCond_EQ, 0, 0, 6),       \* BEQ x0, x0, +6: taken, misaligned
      EncB(BranchCond_NE, 0, 0, 6),       \* BNE x0, x0, +6: not taken
      EncB(BranchCond_EQ, 0, 0, 8) }      \* BEQ x0, x0, +8: taken

InitJump == InitWith({ W(129) }, { Word0, W(4) })

NextJump == Run(ProgJump, { Word0 }, { W(64) }, { FALSE }, MaxJumpInstr)

SpecJump == InitJump /\ [][NextJump]_vars

\* Loads: every aligned LOAD, of every width at every offset of the word at
\* 0x100, on memory words with every mix of byte signs, and the ROM read at
\* the addresses of the second and third phase of these loads.
AlignedLoads ==
    { << f3, lsb >> \in { MemAccessWidth_B, MemAccessWidth_H, MemAccessWidth_W,
                          MemAccessWidth_BU, MemAccessWidth_HU } \X (0..3) :
          \/ f3 \in { MemAccessWidth_B, MemAccessWidth_BU }
          \/ f3 \in { MemAccessWidth_H, MemAccessWidth_HU } /\ lsb \in { 0, 2 }
          \/ f3 = MemAccessWidth_W /\ lsb = 0 }

ProgLoad == { LOAD(5, a[1], 2, a[2]) : a \in AlignedLoads }

\* 0x11223344 and 0x81F27FC4.
DataLoad ==
    { Bits(17, 24) \cup Bits(34, 16) \cup Bits(51, 8) \cup Bits(68, 0),
      Bits(129, 24) \cup Bits(242, 16) \cup Bits(127, 8) \cup Bits(196, 0) }

RomLoadInputs ==
    { [RomIdle EXCEPT !.enable_sequencer_rom = TRUE,
                      !.opcode_select = OpcodeSelect_LOAD,
                      !.instr_phase = ph,
                      !.funct3 = a[1], !.memaddr_2_lsb = a[2]] :
        a \in AlignedLoads, ph \in { 1, 2 } }

InitLoad == InitRom({ W(129) }, { W(256) }, RomLoadInputs)

NextLoad == Run(ProgLoad, DataLoad, { W(64) }, { FALSE }, MaxLoadInstr) \/ ReadRom

SpecLoad == InitLoad /\ [][NextLoad]_vars

\* Stores: every aligned STORE, of every width at every offset of the word
\* at 0x100, of 0x81F27FC4 or 0x11223344, and the ROM read at the addresses
\* of the second and third phase of these stores.
AlignedStores ==
    { << f3, lsb >> \in { MemAccessWidth_B, MemAccessWidth_H,
                          MemAccessWidth_W } \X (0..3) :
          \/ f3 = MemAccessWidth_B
          \/ f3 = MemAccessWidth_H /\ lsb \in { 0, 2 }
          \/ f3 = MemAccessWidth_W /\ lsb = 0 }

ProgStore == { STORE(a[1], 2, 1, a[2]) : a \in AlignedStores }

RomStoreInputs ==
    { [RomIdle EXCEPT !.enable_sequencer_rom = TRUE,
                      !.opcode_select = OpcodeSelect_STORE,
                      !.instr_phase = ph,
                      !.funct3 = a[1], !.memaddr_2_lsb = a[2]] :
        a \in AlignedStores, ph \in { 1, 2 } }

InitStore == InitRom(DataLoad, { W(256) }, RomStoreInputs)

NextStore ==
    Run(ProgStore, { Word0 }, { W(64) }, { FALSE }, MaxStoreInstr) \/ ReadRom

SpecStore == InitStore /\ [][NextStore]_vars

\* Arithmetic: the ten register-register instructions of RV32I in their
\* standard encodings, as << name, funct3, funct7 >>, and the six
\* register-immediate instructions ADDI, SLTI, SLTIU, XORI, ORI and ANDI, as
\* << name, funct3 >>, with immediates 5, 0x400 (instr[30] set) and 0xFFF,
\* and LUI and AUIPC.
StdOp ==
    { << "ADD", 0, 0 >>, << "SUB", 0, 32 >>, << "SLL", 1, 0 >>,
      << "SLT", 2, 0 >>, << "SLTU", 3, 0 >>, << "XOR", 4, 0 >>,
      << "SRL", 5, 0 >>, << "SRA", 5, 32 >>, << "OR", 6, 0 >>,
      << "AND", 7, 0 >> }

StdOpImm ==
    { << "ADD", 0 >>, << "SLT", 2 >>, << "SLTU", 3 >>, << "XOR", 4 >>,
      << "OR", 6 >>, << "AND", 7 >> }

AluImms == { 5, 1024, 4095 }

\* op x5, x1, x2
ProgOp == { EncR(Opcode_OP, 5, o[2], 1, 2, o[3]) : o \in StdOp }

\* op x5, x1, imm, and ADDI x1, x0, 5
ProgOpImm ==
    { EncI(Opcode_OP_IMM, 5, o[2], 1, i) : o \in StdOpImm, i \in AluImms }
        \cup { ADDI(1, 0, 5) }

\* LUI x5, 0x80001 and AUIPC x5, 0x80001
ProgUpper ==
    { EncU(Opcode_LUI, 5, 524289), EncU(Opcode_AUIPC, 5, 524289) }

ProgAlu == ProgOp \cup ProgOpImm \cup ProgUpper

InitAlu == InitWith({ W(129), {0, 2, 31} }, { W(3), 0..31 })

NextAlu == Run(ProgAlu, { Word0 }, { W(64) }, { FALSE }, MaxAluInstr)

SpecAlu == InitAlu /\ [][NextAlu]_vars

\* Unimplemented CSRs: the six CSR instructions, with rd = x2 and with
\* source x1 or immediate 1, on the CSR numbers 0x301 (misa), 0xF14
\* (mhartid) and 0xFFF, after mtvec may have been given a non-zero value.
UnimpCSR == { 769, 3860, 4095 }

CsrFuncs ==
    { SystemFunc_CSRRW, SystemFunc_CSRRS, SystemFunc_CSRRC,
      SystemFunc_CSRRWI, SystemFunc_CSRRSI, SystemFunc_CSRRCI }

ProgUnimp ==
    { EncI(Opcode_SYSTEM, 2, f, 1, c) : f \in CsrFuncs, c \in UnimpCSR }
        \cup { CSRRW(0, CSRAddr_MTVEC, 1) }

InitUnimp == InitWith({ W(129) }, { W(7) })

NextUnimp == Run(ProgUnimp, { Word0 }, { W(64) }, { FALSE }, MaxUnimpInstr)

SpecUnimp == InitUnimp /\ [][NextUnimp]_vars

\* CSR read-modify-write: the six CSR instructions on mtvec and mepc, with
\* rd = x0 or x2 and with source x1 = 0x81 or immediate 1; the second
\* instruction of a run finds the CSR as the first one left it.
RmwCSR == { CSRAddr_MTVEC, CSRAddr_MEPC }

ProgRmw ==
    { EncI(Opcode_SYSTEM, d, f, 1, c) : d \in { 0, 2 }, f \in CsrFuncs,
                                        c \in RmwCSR }

InitRmw == InitWith({ W(129) }, { W(6) })

NextRmw == Run(ProgRmw, { Word0 }, { W(64) }, { FALSE }, MaxRmwInstr)

SpecRmw == InitRmw /\ [][NextRmw]_vars

\* Branches: the six conditions on x1 and x2, with offsets +8 and +12, on
\* register values that are equal, that differ in sign and that differ in
\* magnitude.
BranchConds ==
    { BranchCond_EQ, BranchCond_NE, BranchCond_LT, BranchCond_GE,
      BranchCond_LTU, BranchCond_GEU }

ProgBranch == { EncB(f, 1, 2, o) : f \in BranchConds, o \in { 8, 12 } }

InitBranch == InitWith({ W(129), {0, 31} }, { W(129), W(3) })

NextBranch == Run(ProgBranch, { Word0 }, { W(64) }, { FALSE }, MaxBranchInstr)

SpecBranch == InitBranch /\ [][NextBranch]_vars

(***************************************************************************)
(* Properties.                                                             *)
(***************************************************************************)

\* C1: after every committed instruction and after every completed trap
\* entry, pc[1:0] = 0 whenever fatal = 0, whatever wrote the PC.
C1_PcAligned ==
    ((sig.instr_complete \/ sig.trap_done) /\ ~fatal) => pc \cap {0, 1} = {}

\* C2: whenever an instruction fetch is issued (phase 0, no trap, mem_rd and
\* load_instr asserted), memaddr = pc.
C2_FetchAtPc == fetch => memaddr = pc

MretCycle == CardStep /\ ~trap /\ ~instr_misalign /\ instr' = MRET

\* The ROM is read at an address of the select sel.
RomRead(sel) == ~CardStep /\ rom'.inp.opcode_select = sel

\* C4: MRET takes one phase; afterwards MPIE = 1, MIE is the MPIE of before,
\* and pc is the mepc of before.  The ROM for MRET completes the instruction
\* in the phase it is read, raises exit_trap, and puts mepc on X and X in
\* the PC.
C4_Mret ==
    [][/\ MretCycle =>
              /\ instr_phase = 0 /\ sig'.instr_complete /\ instr_phase' = 0
              /\ MStatus_MPIE \in mstatus'
              /\ (MStatus_MIE \in mstatus') <=> (MStatus_MPIE \in mstatus)
              /\ pc' = mepc
       /\ RomRead(OpcodeSelect_MRET) =>
              /\ rom'.out.set_instr_complete /\ rom'.out.next_instr_phase = 0
              /\ rom'.out.exit_trap
              /\ rom'.out.mepc_num_to_csr_num /\ rom'.out.csr_to_x
              /\ rom'.out.pc_mux_select = "X"]_vars

\* An MRET has moved MPIE = 1 into MIE and a non-zero mepc into the PC, and
\* the ROM has been read for MRET.
C4_Witness ==
    /\ sig.mret /\ sig.instr_complete /\ instr = MRET
    /\ MStatus_MIE \in mstatus /\ MStatus_MPIE \in mstatus
    /\ pc = W(2) /\ mepc = W(2)
    /\ rom.inp.opcode_select = OpcodeSelect_MRET /\ rom.out.exit_trap

\* C5: executing MRET clears trap_svc.
C5_MretClearsTrapSvc == [][MretCycle => ~trap_svc']_vars

IsCSRRW(ir) == opcode(ir) = Opcode_SYSTEM /\ funct3(ir) = SystemFunc_CSRRW

\* C6: a CSRRW writing v to a recognised CSR, followed (no trap or
\* interrupt in between) by a CSRRW of the same CSR with a non-zero rd,
\* leaves v in that rd.
C6_RoundTrip ==
    [][(/\ ~trap /\ ~instr_misalign /\ instr_phase = 1
        /\ IsCSRRW(instr') /\ rd(instr') # 0
        /\ funct12(instr') \in RecognisedCSR
        /\ last.ok /\ IsCSRRW(last.instr)
        /\ funct12(last.instr) = funct12(instr'))
       => /\ sig'.z_reg = rd(instr')
          /\ sig'.bus_z = last.wval
          /\ xreg'[rd(instr')] = last.wval]_vars

\* CSRRS and CSRRC with rs1 = x0, CSRRSI and CSRRCI with a zero immediate.
NoWriteRead(ir) ==
    /\ opcode(ir) = Opcode_SYSTEM
    /\ funct3(ir) \in {SystemFunc_CSRRS, SystemFunc_CSRRC,
                       SystemFunc_CSRRSI, SystemFunc_CSRRCI}
    /\ rs1(ir) = 0

CSRs == << mstatus, mtvec, mepc, mcause, mtval >>

\* The ROM is read at the address of a CSR read that must not write.
RomNoWriteRead ==
    /\ RomRead(OpcodeSelect_CSRS)
    /\ \/ rom'.inp.funct3 \in {SystemFunc_CSRRS, SystemFunc_CSRRC}
          /\ rom'.inp.rs1_0
       \/ rom'.inp.funct3 \in {SystemFunc_CSRRSI, SystemFunc_CSRRCI}
          /\ rom'.inp.imm0

MisalignedAccess(ir, addr) ==
    /\ \/ opcode(ir) = Opcode_LOAD
          /\ funct3(ir) \in {MemAccessWidth_H, MemAccessWidth_HU, MemAccessWidth_W}
       \/ opcode(ir) = Opcode_STORE
          /\ funct3(ir) \in {MemAccessWidth_H, MemAccessWidth_W}
    /\ IF funct3(ir) = MemAccessWidth_W THEN addr \cap {0, 1} # {}
       ELSE 0 \in addr

\* C8: a LOAD or STORE at a misaligned address raises exactly its trap
\* (cause 4 or 6, mtval = memaddr, mepc = pc); z_reg stays 0 and mem_wr
\* stays low in every phase, and the pc is not advanced.
C8_MisalignedAccess ==
    [][(~trap /\ ~instr_misalign /\ instr_phase = 1
           /\ MisalignedAccess(instr', memaddr))
       => /\ sig'.exc /\ trap' /\ exception'
          /\ trap_cause' = IF opcode(instr') = Opcode_LOAD
                           THEN EXC_LOAD_ADDR_MISALIGN
                           ELSE EXC_STORE_AMO_ADDR_MISALIGN
          /\ mtval' = memaddr /\ mepc' = pc
          /\ sig'.z_reg = 0 /\ xreg' = xreg
          /\ ~sig'.mem_wr
          /\ pc' = pc /\ instr_phase' = 0]_vars

\* The legal funct3 and alu_func codes of each opcode.
IllegalFunct(ir) ==
    CASE opcode(ir) \in {Opcode_OP, Opcode_OP_IMM} ->
             alu_func(ir) \notin {AluFunc_ADD, AluFunc_SUB, AluFunc_SLL,
                                  AluFunc_SLT, AluFunc_SLTU, AluFunc_XOR,
                                  AluFunc_SRL, AluFunc_SRA, AluFunc_OR,
                                  AluFunc_AND}
      [] opcode(ir) = Opcode_BRANCH ->
             funct3(ir) \notin {BranchCond_EQ, BranchCond_NE, BranchCond_LT,
                                BranchCond_GE, BranchCond_LTU, BranchCond_GEU}
      [] opcode(ir) = Opcode_LOAD ->
             funct3(ir) \notin {MemAccessWidth_B, MemAccessWidth_BU,
                                MemAccessWidth_H, MemAccessWidth_HU,
                                MemAccessWidth_W}
      [] opcode(ir) = Opcode_STORE ->
             funct3(ir) \notin {MemAccessWidth_B, MemAccessWidth_H,
                                MemAccessWidth_W}
      [] OTHER -> FALSE

\* A SYSTEM word that is neither a CSR instruction nor ECALL, EBREAK or
\* MRET with rd = rs1 = 0.
IllegalSystem(ir) ==
    /\ opcode(ir) = Opcode_SYSTEM
    /\ \/ funct3(ir) = 4
       \/ /\ funct3(ir) = SystemFunc_PRIV
          /\ ~(/\ funct12(ir) \in {PrivFunc_ECALL, PrivFunc_EBREAK, PrivFunc_MRET}
               /\ rd(ir) = 0 /\ rs1(ir) = 0)

IllegalWord(ir) ==
    \/ ir \cap (0..15) = {}
    \/ ir = 0..31
    \/ opcode(ir) \notin {Opcode_LUI, Opcode_AUIPC, Opcode_OP_IMM, Opcode_OP,
                          Opcode_JAL, Opcode_JALR, Opcode_BRANCH, Opcode_LOAD,
                          Opcode_STORE, Opcode_SYSTEM}
    \/ IllegalSystem(ir)
    \/ IllegalFunct(ir)

\* C10: a word is treated as illegal exactly when it is an illegal word:
\* the illegal-instruction exception is raised only for illegal words and
\* no illegal word completes; the exception carries mtval = instr and
\* mepc = pc, trap entry puts cause 2 into mcause and raises fatal.
C10_IllegalExactly ==
    [][/\ (~trap /\ ~instr_misalign) =>
              /\ (sig'.exc /\ sig'.exc_cause = EXC_ILLEGAL_INSTR)
                     => /\ IllegalWord(instr')
                        /\ trap' /\ exception'
                        /\ trap_cause' = EXC_ILLEGAL_INSTR
                        /\ mtval' = instr' /\ mepc' = pc
              /\ (sig'.instr_complete /\ ~sig'.exc) => ~IllegalWord(instr')
       /\ (trap /\ exception /\ trap_cause = EXC_ILLEGAL_INSTR
               /\ instr_phase = 0)
              => mcause' = EXC_ILLEGAL_INSTR /\ fatal']_vars

C11_FatalHalts ==
    [][(CardStep /\ fatal) =>
           /\ sig'.fatal /\ fatal'
           /\ instr_phase' = instr_phase
           /\ ~sig'.instr_complete
           /\ pc' = pc
           /\ CSRs' = CSRs
           /\ ~sig'.z_to_csr
           /\ sig'.z_reg = 0 /\ xreg' = xreg
           /\ ~sig'.mem_wr]_vars

\* A cycle ran with fatal asserted, after a misaligned store, and fatal is
\* still asserted.
C11_Witness ==
    /\ sig.fatal /\ sig.in_trap /\ sig.phase = 1
    /\ fatal /\ trap_cause = EXC_STORE_AMO_ADDR_MISALIGN

\* C12: at an instruction boundary (the cycle asserts instr_complete) with
\* trap = 0, trap_svc = 0 and mstatus.MIE = 1, a set reg_time_irq or
\* reg_ext_irq makes trap 1 at the commit of that cycle, whatever the levels
\* of the time_irq and ext_irq lines are; and an interrupt sets trap only
\* when all of these conditions hold.
C12_InterruptAtBoundary ==
    [][CardStep =>
           /\ ( /\ sig'.instr_complete /\ ~sig'.exc
                /\ ~trap /\ ~trap_svc /\ MStatus_MIE \in mstatus
                /\ (reg_time_irq \/ reg_ext_irq) ) => trap'
           /\ sig'.is_interrupted =>
                  /\ sig'.instr_complete
                  /\ ~trap /\ ~trap_svc /\ MStatus_MIE \in mstatus
                  /\ (reg_time_irq \/ reg_ext_irq)]_vars

\* C13: an interrupt never preempts an instruction in mid-sequence.  trap
\* rises without an exception only in a cycle that asserts instr_complete;
\* that cycle commits the effects of its instruction (ADDI: rd and pc + 4;
\* JAL: rd = pc + 4 and pc + imm; SW: the memory write and pc + 4); trap
\* entry follows at once, in two phases during which nothing is fetched,
\* completed or written to a register or memory: phase 0 saves the committed
\* pc in mepc and addresses the vector (0x80 + 4 * 7 for the timer with
\* mtvec = 0x81), phase 1 loads pc from the vector and sets trap_svc.
C13_NoPreemption ==
    [][/\ sig'.is_interrupted =>
              (sig'.instr_complete /\ ~sig'.exc /\ trap' /\ instr_phase' = 0)
       /\ (~trap /\ trap') => (sig'.is_interrupted \/ sig'.exc)
       /\ (sig'.is_interrupted /\ instr' = ADDI(2, 0, 4)) =>
              (xreg'[2] = W(4) /\ pc' = Add(pc, W(4)))
       /\ (sig'.is_interrupted /\ instr' = JAL(1, 8)) =>
              (xreg'[1] = Add(pc, W(4)) /\ pc' = Add(pc, W(8)))
       /\ (sig'.is_interrupted /\ instr' = STORE(MemAccessWidth_W, 0, 1, 4)) =>
              /\ sig'.mem_wr /\ sig'.mem_wr_mask = 15
              /\ memaddr = W(4) /\ memdata_wr = xreg[1]
              /\ pc' = Add(pc, W(4))
       /\ trap => /\ ~sig'.fetch /\ ~sig'.instr_complete
                  /\ ~sig'.mem_wr /\ xreg' = xreg
       /\ (trap /\ ~exception /\ instr_phase = 0) =>
              /\ trap' /\ instr_phase' = 1 /\ mepc' = pc /\ pc' = pc
              /\ (mtvec = W(129) /\ reg_time_irq) => memaddr' = W(156)
       /\ (trap /\ ~exception /\ instr_phase = 1) =>
              /\ sig'.trap_done /\ ~trap' /\ trap_svc' /\ instr_phase' = 0
              /\ pc' \in Vectors]_vars

\* The timer interrupt was taken at the boundary of ADDI x2, x0, 4, the
\* third instruction: x2 and pc were committed before the entry, which has
\* completed through the vectored mtvec.
C13_Witness ==
    /\ sig.trap_done /\ trap_svc /\ ~trap
    /\ instr = ADDI(2, 0, 4) /\ xreg[2] = W(4)
    /\ mepc = W(12) /\ mcause = INT_MACH_TIMER /\ mtvec = W(129)
    /\ pc \in Vectors

\* C14: the timer has priority over the external interrupt.  When trap entry
\* phase 0 runs for an interrupt with reg_time_irq and reg_ext_irq both set,
\* mcause is written with 0x80000007 and only reg_time_irq is cleared; with
\* only reg_ext_irq set, mcause is written with 0x8000000B and reg_ext_irq is
\* cleared.
C14_TimerPriority ==
    [][(trap /\ ~exception /\ instr_phase = 0) =>
           /\ (reg_time_irq /\ reg_ext_irq) =>
                  /\ mcause' = INT_MACH_TIMER
                  /\ ~reg_time_irq' /\ reg_ext_irq'
           /\ (~reg_time_irq /\ reg_ext_irq) =>
                  /\ mcause' = INT_MACH_EXTERNAL
                  /\ ~reg_ext_irq' /\ ~reg_time_irq']_vars

\* Trap entry phase 0 has run with both latches set: the cause is the timer
\* and the external latch is still set.
C14_Witness ==
    /\ trap /\ ~exception /\ instr_phase = 1 /\ sig.in_trap /\ sig.phase = 0
    /\ sig.clr_time_irq /\ ~sig.clr_ext_irq
    /\ mcause = INT_MACH_TIMER /\ ~reg_time_irq /\ reg_ext_irq

\* The card can take its next cycle, is not in a trap, has not served one,
\* and interrupts are enabled.
C15_Ready ==
    /\ ~fatal /\ ~trap /\ ~trap_svc /\ MStatus_MIE \in mstatus
    /\ instr_phase = 0 => nfetch < MaxLiveInstr

\* Trap entry has completed for the interrupt of the line that is held.
C15_Entered ==
    /\ trap_svc /\ ~trap
    /\ mcause = (IF irq_held = "time" THEN INT_MACH_TIMER ELSE INT_MACH_EXTERNAL)
    /\ MStatus_MIE \notin mstatus /\ MStatus_MPIE \in mstatus

C16_EcallEbreak ==
    [][/\ (CardStep /\ sig'.fetch /\ instr' \in { ECALL, EBREAK }) =>
              /\ trap' /\ exception'
              /\ trap_cause' = (IF instr' = ECALL THEN EXC_ECALL_FROM_MACH_MODE
                                ELSE EXC_BREAKPOINT)
              /\ mepc' = Add(pc, W(4))
              /\ mtval' = pc
       /\ (CardStep /\ instr \in { ECALL, EBREAK }) => ~sig'.fatal
       /\ (RomRead(OpcodeSelect_ECALL) \/ RomRead(OpcodeSelect_EBREAK)) =>
              /\ rom'.out.load_exception /\ ~rom'.out.next_fatal
              /\ rom'.out.exc_const =
                     (IF rom'.inp.opcode_select = OpcodeSelect_ECALL
                      THEN ConstSelect_EXC_ECALL_FROM_MACH_MODE
                      ELSE ConstSelect_EXC_BREAKPOINT)
              /\ rom'.out.exc_mepc = "PC_PLUS_4"
              /\ rom'.out.z_mux_select = "PC"]_vars

\* C17: JAL with a 4-byte-aligned target completes in two phases with
\* pc = old pc + imm(J) (mod 2^32) and rd = old pc + 4, and the next
\* instruction executed is the one at the target: the fetch that follows
\* addresses memory at the new pc.
C17_Jal ==
    [][(~trap /\ ~instr_misalign /\ instr_phase = 1
           /\ opcode(instr) = Opcode_JAL /\ 1 \notin memaddr) =>
           /\ sig'.instr_complete /\ instr_phase' = 0
           /\ pc' = Add(pc, decode_imm(instr, "J"))
           /\ (rd(instr) # 0 => xreg'[rd(instr)] = Add(pc, W(4)))
           /\ memaddr' = pc']_vars

\* The cycle about to run is phase 1 of a JAL or JALR whose computed target
\* has bit 1 set, or of a BRANCH whose computed next pc has Z[1:0] # 0.
MisalignedTransfer ==
    /\ ~trap /\ ~instr_misalign /\ instr_phase = 1
    /\ \/ opcode(instr) \in { Opcode_JAL, Opcode_JALR } /\ 1 \in memaddr
       \/ /\ opcode(instr) = Opcode_BRANCH /\ branch_legal(funct3(instr))
          /\ branch_z(instr) \cap {0, 1} # {}

\* The target the transfer in phase 1 was going to.
IntendedTarget ==
    IF opcode(instr) = Opcode_JAL THEN memaddr
    ELSE IF opcode(instr) = Opcode_JALR THEN memaddr \ {0}
    ELSE branch_z(instr)

\* C18: a control transfer to a misaligned target raises
\* instruction-address-misaligned instead of committing: the cause is 0x0
\* (and mcause = 0x0 once trap entry has saved it), mepc = pc of the
\* transferring instruction, mtval = the intended target (masked with
\* 0xFFFFFFFE for JALR), pc is not updated, rd is not written and
\* instr_complete is not asserted.
C18_MisalignedTransfer ==
    [][/\ MisalignedTransfer =>
              /\ sig'.exc /\ trap' /\ exception'
              /\ trap_cause' = EXC_INSTR_ADDR_MISALIGN
              /\ mepc' = pc
              /\ mtval' = IntendedTarget
              /\ pc' = pc
              /\ sig'.z_reg = 0 /\ xreg' = xreg
              /\ ~sig'.instr_complete
       /\ (trap /\ exception /\ instr_phase = 0
              /\ trap_cause = EXC_INSTR_ADDR_MISALIGN) => mcause' = Word0]_vars

\* The byte, halfword or word of the little-endian word w selected by lsb,
\* sign-extended for LB and LH, zero-extended for LBU, LHU and LW.
LoadValue(f3, lsb, w) ==
    LET n == IF f3 \in { MemAccessWidth_B, MemAccessWidth_BU } THEN 8
             ELSE IF f3 \in { MemAccessWidth_H, MemAccessWidth_HU } THEN 16
             ELSE 32
        v == ShR(w, 8 * lsb) \cap (0..(n - 1))
    IN  IF f3 \in { MemAccessWidth_B, MemAccessWidth_H } THEN SignExt(v, n) ELSE v

\* shamt1, shamt2 and shift2 of the table: LB, LBU 24/16/8/0 by address, 24,
\* SRA resp. SRL; LH, LHU 16 or 0, 16, SRA resp. SRL; LW 0, 0, SRL.
LoadShamt1(f3, lsb) ==
    IF f3 \in { MemAccessWidth_B, MemAccessWidth_BU } THEN 24 - 8 * lsb
    ELSE IF f3 \in { MemAccessWidth_H, MemAccessWidth_HU } THEN 16 - 8 * lsb
    ELSE 0

LoadShamt2(f3) ==
    IF f3 \in { MemAccessWidth_B, MemAccessWidth_BU } THEN 24
    ELSE IF f3 \in { MemAccessWidth_H, MemAccessWidth_HU } THEN 16
    ELSE 0

LoadShift2(f3) ==
    IF f3 \in { MemAccessWidth_B, MemAccessWidth_H } THEN "SRA" ELSE "SRL"

StoreMask(f3, lsb) ==
    IF f3 = MemAccessWidth_B THEN 2 ^ lsb
    ELSE IF f3 = MemAccessWidth_H THEN (IF lsb = 0 THEN 3 ELSE 12)
    ELSE 15

\* The byte lanes that mask enables carry the low bytes of v, in order,
\* starting at lane lsb, and there are n of them.
LanesCarry(mask, lsb, n, data, v) ==
    /\ W(mask) = lsb..(lsb + n - 1)
    /\ \A k \in W(mask) :
           Slice(data, 8 * k, 8 * k + 7, 0)
               = Slice(v, 8 * (k - lsb), 8 * (k - lsb) + 7, 0)

\* C20: for every aligned STORE exactly one memory write is issued, in
\* phase 2, at memaddr = rs1 + imm(S), with memdata_wr = rs2 shifted left by
\* 8 * addr[1:0] bits and mem_wr_mask as in the table, so that the enabled
\* byte lanes carry exactly the low 8/16/32 bits of rs2; then pc advances by
\* 4.  The ROM selects the same shift and the same mask.
C20_Store ==
    [][/\ (CardStep /\ ~trap /\ instr_phase \in { 0, 1 }
              /\ opcode(instr') = Opcode_STORE) => ~sig'.mem_wr
       /\ (CardStep /\ ~trap /\ instr_phase = 2 /\ opcode(instr) = Opcode_STORE) =>
              /\ sig'.mem_wr
              /\ memaddr = Add(xreg[rs1(instr)], decode_imm_S(instr))
              /\ memdata_wr = ShL(xreg[rs2(instr)], 8 * memaddr_2_lsb)
              /\ sig'.mem_wr_mask = StoreMask(funct3(instr), memaddr_2_lsb)
              /\ LanesCarry(sig'.mem_wr_mask, memaddr_2_lsb,
                            IF funct3(instr) = MemAccessWidth_B THEN 1
                            ELSE IF funct3(instr) = MemAccessWidth_H THEN 2 ELSE 4,
                            memdata_wr, xreg[rs2(instr)])
              /\ sig'.instr_complete /\ ~sig'.exc
              /\ pc' = Add(pc, W(4)) /\ instr_phase' = 0
       /\ (RomRead(OpcodeSelect_STORE) /\ rom'.inp.instr_phase = 1) =>
              /\ rom'.out.alu_op_to_z = "SLL"
              /\ rom'.out.memdata_wr_mux_select = "Z"
              /\ const_shamt(rom'.out.exc_const) = 8 * rom'.inp.memaddr_2_lsb
              /\ ~rom'.out.mem_wr /\ rom'.out.next_instr_phase = 2
       /\ (RomRead(OpcodeSelect_STORE) /\ rom'.inp.instr_phase = 2) =>
              /\ rom'.out.mem_wr
              /\ rom'.out.mem_wr_mask =
                     StoreMask(rom'.inp.funct3, rom'.inp.memaddr_2_lsb)
              /\ rom'.out.set_instr_complete
              /\ rom'.out.pc_mux_select = "PC_PLUS_4"]_vars

\* SH x1, 2(x2) with x1 = 0x81F27FC4 has written 0x7FC4 in the upper
\* halfword of the word at 0x100, and the ROM has been read at phase 2 of SH
\* at addr[1:0] = 2.
C20_Witness ==
    /\ sig.instr_complete /\ sig.mem_wr /\ sig.mem_wr_mask = 12
    /\ instr = STORE(MemAccessWidth_H, 2, 1, 2)
    /\ memdata_wr = Bits(32708, 16) /\ pc = W(4)
    /\ rom.inp.instr_phase = 2 /\ rom.inp.funct3 = MemAccessWidth_H
    /\ rom.inp.memaddr_2_lsb = 2 /\ rom.out.mem_wr_mask = 12

\* C21: each of the ten register-register instructions of RV32I in its
\* standard encoding (ADD, SUB, SLL, SLT, SLTU, XOR, SRL, SRA, OR, AND)
\* completes in one phase without a trap, with X driven from rs1, Y from
\* rs2, z_reg = rd and alu_op_to_z the ALU operation of the same name, so
\* that rd receives the ALU's result for that instruction.
C21_Op ==
    [][\A o \in StdOp :
         (~trap /\ ~instr_misalign /\ instr_phase = 0
             /\ instr' = EncR(Opcode_OP, 5, o[2], 1, 2, o[3])) =>
             /\ sig'.instr_complete /\ ~sig'.exc /\ ~trap'
             /\ sig'.reg_to_x /\ sig'.x_reg = 1
             /\ sig'.reg_to_y /\ sig'.y_reg = 2
             /\ sig'.z_reg = 5 /\ sig'.alu_op_to_z = o[1]
             /\ xreg'[5] = ALU(o[1], xreg[1], xreg[2])]_vars

\* C22: ADDI selects the ALU operation ADD for every 12-bit immediate and
\* rd = rs1 + the sign-extended immediate (mod 2^32); SLTI, SLTIU, XORI, ORI
\* and ANDI select SLT, SLTU, XOR, OR and AND for every immediate and never
\* raise the illegal-instruction trap.
C22_OpImm ==
    [][\A o \in StdOpImm, i \in AluImms :
         (~trap /\ ~instr_misalign /\ instr_phase = 0
             /\ instr' = EncI(Opcode_OP_IMM, 5, o[2], 1, i)) =>
             /\ ~sig'.exc /\ sig'.alu_op_to_z = o[1]
             /\ xreg'[5] = ALU(o[1], xreg[1], SignExt(W(i), 12))]_vars

\* C23: instr_complete is asserted only on the last phase of a successfully
\* committed instruction: in no cycle are instr_complete (or
\* _is_last_instr_cycle) and a raised exception both present, and a cycle
\* that raises an exception neither advances pc nor writes a register.
C23_NoCommitOnException ==
    [][sig'.exc =>
           /\ ~sig'.instr_complete /\ ~sig'.is_last_instr_cycle
           /\ pc' = pc /\ xreg' = xreg]_vars

\* C24: instr_phase only takes the values 0, 1 and 2, and in the state right
\* after a cycle in which instr_complete was asserted instr_phase = 0.
C24_PhaseRange ==
    /\ instr_phase \in 0..2
    /\ sig.instr_complete => instr_phase = 0

\* A three-phase instruction has just completed at an instruction boundary
\* outside any trap.
C24_Witness ==
    /\ sig.instr_complete /\ sig.phase = 2 /\ instr_phase = 0
    /\ ~trap /\ ~trap_svc

CsrSrc(ir) ==
    IF funct3(ir) \in { SystemFunc_CSRRW, SystemFunc_CSRRS, SystemFunc_CSRRC }
    THEN xreg[rs1(ir)]
    ELSE W(rs1(ir))

\* The value a CSR instruction leaves in the CSR that held old.
CsrNew(ir, old) ==
    CASE funct3(ir) \in { SystemFunc_CSRRW, SystemFunc_CSRRWI } -> CsrSrc(ir)
      [] funct3(ir) \in { SystemFunc_CSRRS, SystemFunc_CSRRSI } ->
             old \cup CsrSrc(ir)
      [] OTHER -> old \ CsrSrc(ir)

\* CSRRW or CSRRWI with rd = x0.
CsrWriteOnly(ir) ==
    funct3(ir) \in { SystemFunc_CSRRW, SystemFunc_CSRRWI } /\ rd(ir) = 0

\* C26: CSR read-modify-write over two phases.  CSRRW/CSRRWI always write
\* the CSR with rs1 (the zero-extended rs1 field) and, when rd # 0, put the
\* CSR's old value in rd; when rd = 0 the CSR is not read (csr_to_x is not
\* asserted, X is x0) but is still written.  CSRRS/CSRRSI set the CSR to
\* old | src, CSRRC/CSRRCI to old & ~src, and rd receives the old value
\* held in tmp.
C26_CsrRmw ==
    [][(~trap /\ ~instr_misalign /\ opcode(instr') = Opcode_SYSTEM
           /\ funct3(instr') \in CsrFuncs /\ funct12(instr') \in RmwCSR) =>
           /\ (instr_phase = 0 =>
                   /\ mtvec' = IF funct12(instr') = CSRAddr_MTVEC
                               THEN CsrNew(instr', mtvec) ELSE mtvec
                   /\ mepc' = IF funct12(instr') = CSRAddr_MEPC
                              THEN CsrNew(instr', mepc) ELSE mepc
                   /\ tmp' = IF CsrWriteOnly(instr') THEN Word0
                             ELSE csr_read(funct12(instr'))
                   /\ (CsrWriteOnly(instr') =>
                           /\ ~sig'.csr_to_x /\ sig'.reg_to_x
                           /\ sig'.x_reg = 0 /\ sig'.z_to_csr)
                   /\ instr_phase' = 1 /\ xreg' = xreg)
           /\ (instr_phase = 1 =>
                   /\ sig'.instr_complete /\ CSRs' = CSRs
                   /\ xreg' = IF rd(instr) = 0 THEN xreg
                              ELSE [xreg EXCEPT ![rd(instr)] = tmp])]_vars

\* CSRRC x2, mtvec, x1 has completed on mtvec = 0x81 = x1: x2 holds the old
\* value and mtvec is cleared.
C26_Witness ==
    /\ sig.instr_complete /\ sig.phase = 1 /\ ~sig.in_trap
    /\ funct3(instr) = SystemFunc_CSRRC /\ funct12(instr) = CSRAddr_MTVEC
    /\ xreg[2] = W(129) /\ mtvec = Word0

\* The JALR target of the ISA: rs1 + the sign-extended I-format immediate.
JalrTarget == Add(xreg[rs1(instr)], decode_imm(instr, "I"))

\* C27: JALR computes its target as rs1 + the sign-extended I-format
\* immediate instr[31:20]: with a target whose bit 1 is clear, after two
\* phases pc = (rs1 + sext(instr[31:20])) & 0xFFFFFFFE and rd = old pc + 4.
C27_Jalr ==
    [][(~trap /\ ~instr_misalign /\ instr_phase = 1
           /\ opcode(instr) = Opcode_JALR /\ 1 \notin JalrTarget) =>
           /\ sig'.instr_complete /\ instr_phase' = 0
           /\ pc' = JalrTarget \ {0}
           /\ (rd(instr) # 0 => xreg'[rd(instr)] = Add(pc, W(4)))]_vars

\* The branch decision of the ISA on the operands rs1 and rs2.
BranchTaken(f3, a, b) ==
    CASE f3 = BranchCond_EQ  -> a = b
      [] f3 = BranchCond_NE  -> a # b
      [] f3 = BranchCond_LT  -> LtS(a, b)
      [] f3 = BranchCond_GE  -> ~LtS(a, b)
      [] f3 = BranchCond_LTU -> LtU(a, b)
      [] OTHER               -> ~LtU(a, b)

\* The next pc of the branch in instr.
BranchNextPc ==
    Add(pc, IF BranchTaken(funct3(instr), xreg[rs1(instr)], xreg[rs2(instr)])
            THEN decode_imm(instr, "B") ELSE W(4))

\* C28: BRANCH decides on the ALU flags latched at the end of phase 0
\* (rs1 - rs2): BEQ taken iff eq, BNE iff not eq, BLT iff lt, BGE iff not
\* lt, BLTU iff ltu, BGEU iff not ltu.  When the resulting next pc is
\* 4-byte aligned, the instruction commits in phase 1 with pc and memaddr
\* both equal to old pc + imm(B) if taken and old pc + 4 if not, and no
\* register is written.
C28_Branch ==
    [][(~trap /\ ~instr_misalign /\ opcode(instr') = Opcode_BRANCH
           /\ funct3(instr') \in BranchConds) =>
           /\ (instr_phase = 0 =>
                   /\ stored_alu_eq' = (xreg[rs1(instr')] = xreg[rs2(instr')])
                   /\ stored_alu_lt' = LtS(xreg[rs1(instr')], xreg[rs2(instr')])
                   /\ stored_alu_ltu' = LtU(xreg[rs1(instr')], xreg[rs2(instr')])
                   /\ instr_phase' = 1 /\ pc' = pc /\ xreg' = xreg)
           /\ (instr_phase = 1 /\ BranchNextPc \cap {0, 1} = {} =>
                   /\ sig'.instr_complete /\ ~sig'.exc /\ instr_phase' = 0
                   /\ pc' = BranchNextPc /\ memaddr' = BranchNextPc
                   /\ sig'.z_reg = 0 /\ xreg' = xreg)]_vars

\* BLT x1, x2, +8 at pc 0 has been taken on x1 = 0x80000001 and x2 = 3,
\* which the unsigned comparison would not take.
C28_Witness ==
    /\ sig.instr_complete /\ sig.phase = 1 /\ ~sig.in_trap
    /\ opcode(instr) = Opcode_BRANCH /\ funct3(instr) = BranchCond_LT
    /\ xreg[1] = {0, 31} /\ xreg[2] = W(3)
    /\ pc = W(8) /\ memaddr = W(8)

\* The trap vector address for the trap cause c under the current mtvec.
TrapVector(c) ==
    Add(mtvec \ {0, 1},
        IF Field(mtvec, 0, 1) = 1 /\ 31 \in c THEN ShL(c \cap (0..29), 2)
        ELSE Word0)

\* C29: in trap entry phase 0 memaddr is loaded with
\* (mtvec & ~3) + (cause[29:0] << 2) (mod 2^32) when mtvec[1:0] = 1 and the
\* cause is an interrupt, and with mtvec & ~3 otherwise; in phase 1 of a
\* non-fatal trap a memory read is issued at that address and both pc and
\* memaddr are loaded with the word read.
C29_TrapVector ==
    [][trap =>
           /\ (instr_phase = 0 =>
                   /\ memaddr' = TrapVector(trap_cause')
                   /\ instr_phase' = 1)
           /\ (instr_phase = 1 /\ ~exception =>
                   /\ sig'.mem_rd /\ sig'.memdata_to_pc
                   /\ sig'.memdata_to_memaddr
                   /\ pc' \in Vectors /\ memaddr' = pc')]_vars

\* Trap entry phase 0 has run for a timer interrupt under vectored mtvec
\* with base 0x80: memaddr = 0x80 + 7 * 4.
C29_Witness ==
    /\ sig.in_trap /\ sig.phase = 0 /\ trap /\ ~exception
    /\ mtvec = W(129) /\ trap_cause = INT_MACH_TIMER
    /\ memaddr = W(156)

\* C30: completion of a non-fatal trap entry (phase 1) sets trap_svc,
\* copies mstatus.MIE into mstatus.MPIE, clears mstatus.MIE, clears trap,
\* exception and trap_cause, and leaves instr_phase at 0, so the next cycle
\* fetches the first handler instruction with interrupts disabled; all
\* other mstatus bits, mtvec, mepc, mcause and mtval are unchanged by that
\* phase.
C30_TrapEntryDone ==
    [][(trap /\ instr_phase = 1 /\ ~exception) =>
           /\ trap_svc' /\ ~trap' /\ ~exception' /\ trap_cause' = Word0
           /\ instr_phase' = 0
           /\ (MStatus_MPIE \in mstatus') = (MStatus_MIE \in mstatus)
           /\ MStatus_MIE \notin mstatus'
           /\ mstatus' \ {MStatus_MIE, MStatus_MPIE}
                  = mstatus \ {MStatus_MIE, MStatus_MPIE}
           /\ mtvec' = mtvec /\ mepc' = mepc /\ mcause' = mcause
           /\ mtval' = mtval
           /\ (pc' \cap {0, 1} = {} => fetch')]_vars

\* Trap entry has completed on mstatus = 0x89: mstatus = 0x81, trap_svc is
\* set and the interrupt's cause is in mcause.
C30_Witness ==
    /\ sig.in_trap /\ sig.phase = 1 /\ sig.trap_done
    /\ trap_svc /\ ~trap /\ mstatus = W(129)
    /\ 31 \in mcause /\ instr_phase = 0

\* C31: reg_time_irq and reg_ext_irq change from 0 to 1 only in a cycle
\* where trap = 0 and mstatus.MIE = 1 (and the line is high); and in every
\* cycle where mstatus.MIE = 0 both latches are 0 after that cycle's commit,
\* whatever the value of trap.
C31_IrqLatch ==
    [][CardStep =>
           /\ (~reg_time_irq /\ reg_time_irq' =>
                   ~trap /\ MStatus_MIE \in mstatus)
           /\ (~reg_ext_irq /\ reg_ext_irq' =>
                   ~trap /\ MStatus_MIE \in mstatus)
           /\ (MStatus_MIE \notin mstatus =>
                   ~reg_time_irq' /\ ~reg_ext_irq')]_vars

\* C32: in any cycle with pc[1:0] # 0 and trap = 0,
\* EXC_INSTR_ADDR_MISALIGN is raised with mtval = pc and mepc = pc, and no
\* opcode handler is active in that cycle: no register write (z_reg = 0), no
\* CSR write, no memory read or write, no PC update, whatever the latched
\* instruction word is.
C32_PcMisaligned ==
    [][(CardStep /\ ~trap /\ pc \cap {0, 1} # {}) =>
           /\ sig'.exc /\ exception' /\ trap'
           /\ trap_cause' = EXC_INSTR_ADDR_MISALIGN
           /\ mtval' = pc /\ mepc' = pc
           /\ sig'.z_reg = 0 /\ xreg' = xreg
           /\ ~sig'.z_to_csr /\ mtvec' = mtvec /\ mstatus' = mstatus
           /\ mcause' = mcause
           /\ ~sig'.mem_rd /\ ~sig'.mem_wr /\ ~sig'.fetch
           /\ ~sig'.instr_complete
           /\ pc' = pc /\ instr' = instr]_vars

\* The misalignment exception has been raised on a pc with bit 1 set while
\* the instruction register holds an MRET.
C32_Witness ==
    /\ sig.instr_misalign /\ sig.exc /\ ~sig.in_trap
    /\ 1 \in pc /\ mepc = pc /\ mtval = pc
    /\ instr = MRET

\* The pc an instruction of Prog produces when it commits.
CommittedPc(ir) ==
    IF ir = MRET THEN mepc
    ELSE IF opcode(ir) = Opcode_JAL THEN Add(pc, decode_imm(ir, "J"))
    ELSE Add(pc, W(4))

Asserted(s) == Cardinality({ i \in DOMAIN s : s[i] })

C35_SinglePhaseFrame ==
    [][(CardStep /\ ~trap /\ ~instr_misalign /\ instr_phase = 0
           /\ opcode(instr') \in { Opcode_LUI, Opcode_AUIPC, Opcode_OP,
                                   Opcode_OP_IMM }
           /\ ~sig'.exc /\ ~sig'.is_interrupted) =>
           /\ sig'.instr_complete /\ instr_phase' = 0
           /\ pc' = Add(pc, W(4)) /\ memaddr' = Add(pc, W(4))
           /\ \A r \in 0..31 : r # rd(instr') => xreg'[r] = xreg[r]
           /\ CSRs' = CSRs /\ tmp' = tmp /\ memdata_wr' = memdata_wr
           /\ trap' = trap /\ trap_svc' = trap_svc
           /\ exception' = exception
           /\ ~sig'.mem_wr /\ sig'.mem_wr_mask = 0]_vars

\* AUIPC x5, 0x80001 has committed at pc 0: x5 = 0x80001000 and pc = 4.
C35_Witness ==
    /\ sig.instr_complete /\ ~sig.exc /\ opcode(instr) = Opcode_AUIPC
    /\ xreg[5] = {12, 31} /\ pc = W(4) /\ memaddr = W(4)

\* C36: mem_rd and mem_wr are never asserted in the same cycle: a memory
\* write (STORE phase 2) never coincides with an instruction fetch, a LOAD
\* read or a trap-vector read.
C36_ReadXorWrite == ~(sig.mem_rd /\ sig.mem_wr)

\* The write cycle of a STORE has run, and it fetched nothing.
C36_Witness ==
    /\ sig.mem_wr /\ ~sig.mem_rd /\ ~sig.fetch /\ sig.phase = 2
    /\ opcode(instr) = Opcode_STORE

\* The byte-lane masks of a legal store.
StoreMasks == { 1, 2, 4, 8, 3, 12, 15 }

\* C37: whenever mem_wr is asserted, mem_wr_mask is one of 0001, 0010,
\* 0100, 1000, 0011, 1100, 1111 (never 0000), because STORE phase 2 is
\* reached only with a funct3/addr[1:0] combination that passed the checks
\* of phase 1; and mem_wr_mask is 0000 whenever mem_wr is not asserted.
C37_WriteMask ==
    /\ sig.mem_wr => sig.mem_wr_mask \in StoreMasks
    /\ ~sig.mem_wr => sig.mem_wr_mask = 0

\* SH x1, 1(x2) with x2 = 3 has written the low half of the word at 4.
C37_Witness ==
    /\ sig.mem_wr /\ sig.mem_wr_mask = 3 /\ sig.phase = 2
    /\ funct3(instr) = MemAccessWidth_H /\ memaddr = W(4)

\* C38: whenever trap entry phase 0 runs without a pending exception
\* (trap = 1, exception = 0, instr_phase = 0), at least one of reg_time_irq
\* and reg_ext_irq is set, so mcause is written with 0x80000007 or
\* 0x8000000B and never with a stale or zero trap_cause.
C38_InterruptCause ==
    [][(CardStep /\ trap /\ ~exception /\ instr_phase = 0) =>
           /\ reg_time_irq \/ reg_ext_irq
           /\ mcause' \in { INT_MACH_TIMER, INT_MACH_EXTERNAL }
           /\ mcause' = trap_cause']_vars

\* Trap entry phase 0 has run for an external interrupt alone.
C38_Witness ==
    /\ sig.in_trap /\ sig.phase = 0 /\ ~exception
    /\ sig.clr_ext_irq /\ mcause = INT_MACH_EXTERNAL

\* C39: when the timer and the external interrupt are both latched at trap
\* entry, the external request does not stay pending through the handler:
\* trap entry phase 0 clears only reg_time_irq, trap entry phase 1 clears
\* mstatus.MIE and keeps reg_ext_irq, and the first cycle after trap entry
\* (trap = 0, MIE = 0) clears reg_ext_irq too, so a later external
\* interrupt needs the line to be registered anew.
C39_ExternalDropped ==
    [][CardStep =>
           /\ (trap /\ instr_phase = 0 /\ ~exception
                   /\ reg_time_irq /\ reg_ext_irq =>
                   ~reg_time_irq' /\ reg_ext_irq'
                       /\ mcause' = INT_MACH_TIMER)
           /\ (trap /\ instr_phase = 1 /\ ~exception =>
                   /\ reg_ext_irq' = reg_ext_irq
                   /\ MStatus_MIE \notin mstatus' /\ ~trap')
           /\ (sig.trap_done =>
                   /\ ~trap /\ MStatus_MIE \notin mstatus
                   /\ ~reg_time_irq' /\ ~reg_ext_irq')]_vars

\* Trap entry for the timer has completed with the external request still
\* registered.
C39_Witness ==
    /\ sig.trap_done /\ mcause = INT_MACH_TIMER
    /\ reg_ext_irq /\ ~reg_time_irq /\ ~trap

(***************************************************************************)
(* SpecAgree: the decode logic of the card and the ROM on the same inputs. *)
(* Both are combinational: the card's control signals are a function of    *)
(* the registers instr, instr_phase, memaddr and the stored flags, the     *)
(* ROM's outputs a function of its address lines.  The registers start at  *)
(* every combination of the inputs, and one step decodes them in both.     *)
(***************************************************************************)
\* The opcode_select line for the instruction word ir: the opcode by name,
\* SYSTEM split into the CSR instructions, MRET, ECALL and EBREAK.
OpcodeSelectOf(ir) ==
    LET op == opcode(ir)
    IN  CASE op = Opcode_LUI    -> OpcodeSelect_LUI
          [] op = Opcode_AUIPC  -> OpcodeSelect_AUIPC
          [] op = Opcode_OP_IMM -> OpcodeSelect_OP_IMM
          [] op = Opcode_OP     -> OpcodeSelect_OP
          [] op = Opcode_JAL    -> OpcodeSelect_JAL
          [] op = Opcode_JALR   -> OpcodeSelect_JALR
          [] op = Opcode_BRANCH -> OpcodeSelect_BRANCH
          [] op = Opcode_LOAD   -> OpcodeSelect_LOAD
          [] op = Opcode_STORE  -> OpcodeSelect_STORE
          [] op = Opcode_SYSTEM /\ funct3(ir) # SystemFunc_PRIV -> OpcodeSelect_CSRS
          [] op = Opcode_SYSTEM /\ ir = MRET   -> OpcodeSelect_MRET
          [] op = Opcode_SYSTEM /\ ir = ECALL  -> OpcodeSelect_ECALL
          [] op = Opcode_SYSTEM /\ ir = EBREAK -> OpcodeSelect_EBREAK
          [] OTHER -> OpcodeSelect_NONE

\* The ROM's address lines when the card decodes the instruction word ir in
\* its current state.
RomAddress(ir) ==
    [ enable_sequencer_rom |-> TRUE,
      opcode_select |-> OpcodeSelectOf(ir),
      instr_phase |-> instr_phase,
      memaddr_2_lsb |-> memaddr_2_lsb,
      branch_cond |-> branch_cond(funct3(ir)),
      data_z_in_2_lsb0 |-> (branch_z(ir) \cap {0, 1} = {}),
      imm0 |-> (decode_imm(ir, opcode_handler(ir).imm_format) = Word0),
      rd0 |-> (rd(ir) = 0),
      rs1_0 |-> (rs1(ir) = 0),
      funct3 |-> funct3(ir),
      alu_func |-> alu_func(ir) ]

\* Every funct3 with every alu_func bit for OP and OP_IMM, every funct3 for
\* BRANCH (to an aligned and to a misaligned target), LOAD and STORE, the
\* CSR instructions with rd and rs1 zero and non-zero, and MRET.
ProgAgree ==
    { EncU(Opcode_LUI, 5, 1), EncU(Opcode_AUIPC, 5, 1),
      JAL(5, 8), JALR(5, 2, 4), MRET }
    \cup { EncR(Opcode_OP, 5, f, 1, 2, f7) : f \in 0..7, f7 \in {0, 32} }
    \cup { EncI(Opcode_OP_IMM, 5, f, 1, n) : f \in 0..7, n \in {5, 1029} }
    \cup { EncB(f, 1, 2, o) : f \in 0..7, o \in {8, 6} }
    \cup { LOAD(5, f, 2, 4) : f \in 0..7 }
    \cup { STORE(f, 2, 1, 4) : f \in 0..7 }
    \cup { EncI(Opcode_SYSTEM, d, f, s, CSRAddr_MTVEC) :
               d \in {0, 5}, s \in {0, 1}, f \in CsrFuncs }

InitAgree ==
    /\ pc = Word0
    /\ instr \in ProgAgree
    /\ instr_phase \in 0..3
    /\ memaddr \in { W(n) : n \in 0..3 }
    /\ stored_alu_eq \in BOOLEAN
    /\ stored_alu_lt = FALSE /\ stored_alu_ltu = FALSE
    /\ memdata_wr = Word0 /\ tmp = Word0
    /\ reg_time_irq = FALSE /\ reg_ext_irq = FALSE
    /\ trap = FALSE /\ trap_svc = FALSE
    /\ exception = FALSE /\ trap_cause = Word0
    /\ mtvec = Word0 /\ mcause = Word0 /\ mepc = Word0 /\ mtval = Word0
    /\ mstatus = Word0
    /\ xreg = [i \in 0..31 |-> Word0]
    /\ sig = Defaults
    /\ last = [ok |-> FALSE, instr |-> Word0, wval |-> Word0, pend |-> Word0]
    /\ nfetch = 0
    /\ irq_held = "free"
    /\ rom = [inp |-> RomIdle, out |-> RomDefaults]

\* The card's control signals and the ROM's outputs for the registers as
\* they stand.
Decode ==
    /\ ~rom.inp.enable_sequencer_rom
    /\ sig' = control(instr)
    /\ rom' = [inp |-> RomAddress(instr),
               out |-> SequencerROM(RomAddress(instr))]
    /\ UNCHANGED << pc, instr_phase, instr,
                    stored_alu_eq, stored_alu_lt, stored_alu_ltu,
                    memaddr, memdata_wr, tmp, reg_time_irq, reg_ext_irq,
                    trap, trap_svc, exception, trap_cause,
                    mtvec, mcause, mepc, mtval, mstatus, xreg,
                    last, nfetch, irq_held >>

SpecAgree == InitAgree /\ [][Decode]_vars

\* The signals the two modules share: h of the card, o of the ROM.
Agrees(h, o) ==
    /\ h.alu_op_to_z = o.alu_op_to_z
    /\ h.next_instr_phase = o.next_instr_phase
    /\ h.mem_wr = o.mem_wr
    /\ h.mem_wr_mask = o.mem_wr_mask
    /\ h.csr_to_x = o.csr_to_x
    /\ h.z_to_csr = o.z_to_csr
    /\ h.reg_to_x = o.reg_to_x
    /\ h.reg_to_y = o.reg_to_y
    /\ h.is_last_instr_cycle = o.set_instr_complete

\* Both modules have decoded the registers and neither raises an exception.
NonTrapping ==
    /\ rom.inp.enable_sequencer_rom
    /\ ~sig.exc /\ ~rom.out.load_exception

\* The write phase of a SW whose address is not word-aligned.
MisalignedWordWrite ==
    /\ opcode(instr) = Opcode_STORE /\ funct3(instr) = MemAccessWidth_W
    /\ instr_phase >= 2 /\ memaddr_2_lsb # 0

====
